---------------------------- MODULE Spec2Model ----------------------------
(***************************************************************************)
(* Temporal geospatial query engine of the civilisation map.               *)
(*                                                                         *)
(* The state is the `state` object of src/js/state.js restricted to the    *)
(* dataset and its derived index, the heatmap and graph caches, the        *)
(* progress of loadAllData, and `call`, the record of the last engine call *)
(* and the value it returned.                                              *)
(*                                                                         *)
(* Conventions                                                             *)
(*   - a JavaScript string that the code inspects character by character   *)
(*     (polity names) is a sequence of one-character strings;              *)
(*   - null is the empty sequence and a non-null value v is <<v>>;         *)
(*   - coordinates are integers, in hundredths of a degree, so the         *)
(*     arithmetic of the ray-casting and distance tests is exact;          *)
(*   - a populations object is a function from its (numeric) keys to       *)
(*     values; keys are canonical decimal year strings, for which          *)
(*     Number(key) and pops[year] agree.                                   *)
(***************************************************************************)
EXTENDS Integers, Sequences, FiniteSets, TLC

VARIABLES
    allPolities,          \* state.allPolities: sequence of polity features
    allCities,            \* state.allCities: sequence of city features
    worldStats,           \* state.worldStats: sequence of yearly samples
    polityFoundingYears,  \* state.polityFoundingYears: name -> earliest FromYear
    currentYear,          \* state.currentYear
    fetches,              \* the three fetch chains of loadAllData
    loadedCount,          \* loadAllData's local counter
    completeCalls,        \* number of times onComplete has been invoked
    call,                 \* the last engine call: [op, args, ret]
    heatmapMode,          \* state.heatmapMode: "off", "contested" or "settled"
    heatmapComputed,      \* state.heatmapComputed
    heatmapData,          \* state.heatmapData: the object installed last
    heatmapLayer,         \* state.heatmapLayer: null or the layer shown
    heatmapLoads,         \* the calls of loadHeatmapData that went on to fetch
    graphData,            \* state.graphData: year -> metrics snapshot
    graphDataLoaded,      \* state.graphDataLoaded
    graphVisible,         \* the graph panel carries the class 'visible'
    preloadPasses,        \* the calls of preloadGraphData: whether a pass
                          \* started, its index, its callback's invocations
    infoPanelPinned,      \* state.infoPanelPinned
    selectedLocation,     \* state.selectedLocation: null or the selection
    selectedCity,         \* state.selectedCity: null or a city
    selectedRiver,        \* state.selectedRiver: null or a river feature
    hoverPriority,        \* state.hoverPriority: null, 'city', 'river', 'ocean'
    selectedOceanLayer,   \* terrainState.selectedOceanLayer: null or a layer
    pointer,              \* the element the mouse pointer is over
    locationHistory,      \* state.locationHistory: the navigation stack
    mapCenter,            \* state.map.getCenter(), as [lat, lng] of quotients
    currentZoomLevel,     \* timeline.js: index into ZOOM_LEVELS
    windowStart,          \* timeline.js: first year of the window, in half years
    windowEnd             \* timeline.js: last year of the window, in half years

heatmapVars == <<heatmapMode, heatmapComputed, heatmapData, heatmapLayer, heatmapLoads>>

graphVars == <<graphData, graphDataLoaded, graphVisible, preloadPasses>>

uiVars == <<infoPanelPinned, selectedLocation, selectedCity, selectedRiver,
            hoverPriority, selectedOceanLayer, pointer, locationHistory, mapCenter>>

timelineVars == <<currentZoomLevel, windowStart, windowEnd>>

panelVars == <<heatmapVars, graphVars, uiVars, timelineVars>>

vars == <<allPolities, allCities, worldStats, polityFoundingYears,
          currentYear, fetches, loadedCount, completeCalls, call, panelVars>>

-----------------------------------------------------------------------------
(* Bounds of the model *)

MaxPolities == 2     \* fragments in a dataset (visibility, metrics, load)
MaxFragments == 3    \* fragments in a dataset of the history specification
MaxRecorded == 3     \* recorded years in a populations series
MaxCities == 1       \* cities in a dataset of the metrics and load specifications

-----------------------------------------------------------------------------
(* Generic helpers *)

Null == << >>

Some(v) == <<v>>

Max(a, b) == IF a >= b THEN a ELSE b

Min(a, b) == IF a <= b THEN a ELSE b

\* All sequences over S of length at most n.
SeqsUpTo(S, n) == UNION { [1..k -> S] : k \in 0..n }

RECURSIVE SumSeq(_)
SumSeq(s) == IF s = << >> THEN 0 ELSE Head(s) + SumSeq(Tail(s))

-----------------------------------------------------------------------------
(* Strings the code inspects *)

startsWith(s, c) == Len(s) >= 1 /\ s[1] = c

endsWith(s, c) == Len(s) >= 1 /\ s[Len(s)] = c

-----------------------------------------------------------------------------
(* Geometry kernel (src/js/utils.js) *)

\* x < num / den + xi over the reals, for den # 0, without dividing.
LessThanQuotientPlus(x, num, den, xi) ==
    IF den > 0 THEN (x - xi) * den < num
               ELSE (x - xi) * den > num

\* Ray casting whose two height tests disagree on a vertex level with the
\* point: (yi >= y) against (yj > y).
pointInPolygonUnevenLevels(point, polygon) ==
    LET x == point[1]
        y == point[2]
        n == Len(polygon)
        crosses(i) ==
            LET j  == IF i = 1 THEN n ELSE i - 1
                xi == polygon[i][1]
                yi == polygon[i][2]
                xj == polygon[j][1]
                yj == polygon[j][2]
            IN  /\ (yi >= y) # (yj > y)
                /\ LessThanQuotientPlus(x, (xj - xi) * (y - yi), yj - yi, xi)
    IN  Cardinality({ i \in 1..n : crosses(i) }) % 2 = 1

\* Even-odd ray casting: `inside` is toggled once for every edge (j, i),
\* j = i - 1 cyclically, that the ray crosses.
pointInPolygon(point, polygon) ==
    LET x == point[1]
        y == point[2]
        n == Len(polygon)
        crosses(i) ==
            LET j  == IF i = 1 THEN n ELSE i - 1
                xi == polygon[i][1]
                yi == polygon[i][2]
                xj == polygon[j][1]
                yj == polygon[j][2]
            IN  /\ (yi > y) # (yj > y)
                /\ LessThanQuotientPlus(x, (xj - xi) * (y - yi), yj - yi, xi)
    IN  Cardinality({ i \in 1..n : crosses(i) }) % 2 = 1

\* pointInGeometry with the default tolerance 0: only the exact test runs.
pointInGeometry(lon, lat, geometry) ==
    LET point == <<lon, lat>>
    IN  IF geometry.type = "Polygon"
        THEN pointInPolygon(point, geometry.coordinates[1])
        ELSE IF geometry.type = "MultiPolygon"
        THEN \E k \in 1..Len(geometry.coordinates) :
                 pointInPolygon(point, geometry.coordinates[k][1])
        ELSE FALSE

\* distanceToPolygonEdge's distance from the point to the segment from
\* (x1, y1) to (x2, y2), compared with the tolerance on squares: the nearest
\* point of the segment is an end point when the projection parameter t is
\* clamped to 0 or 1, and the foot of the perpendicular otherwise.
segmentDistanceAtMost(px, py, x1, y1, x2, y2, tolerance) ==
    LET dx       == x2 - x1
        dy       == y2 - y1
        lengthSq == dx * dx + dy * dy
        dot      == (px - x1) * dx + (py - y1) * dy
        cross    == (px - x1) * dy - (py - y1) * dx
    IN  IF lengthSq = 0 \/ dot <= 0
        THEN (px - x1) * (px - x1) + (py - y1) * (py - y1) <= tolerance * tolerance
        ELSE IF dot >= lengthSq
        THEN (px - x2) * (px - x2) + (py - y2) * (py - y2) <= tolerance * tolerance
        ELSE cross * cross <= tolerance * tolerance * lengthSq

\* distanceToPolygonEdge(point, polygon) <= tolerance: the minimum over the
\* edges (i, i + 1 cyclically) is within the tolerance when one edge is.
distanceToPolygonEdgeAtMost(point, polygon, tolerance) ==
    \E i \in 1..Len(polygon) :
        LET k == IF i = Len(polygon) THEN 1 ELSE i + 1
        IN  segmentDistanceAtMost(point[1], point[2],
                                  polygon[i][1], polygon[i][2],
                                  polygon[k][1], polygon[k][2], tolerance)

\* distanceToGeometryEdge(lon, lat, geometry) <= tolerance; the distance is
\* Infinity for a geometry that is neither Polygon nor MultiPolygon.
distanceToGeometryEdgeAtMost(lon, lat, geometry, tolerance) ==
    IF geometry.type = "Polygon"
    THEN distanceToPolygonEdgeAtMost(<<lon, lat>>, geometry.coordinates[1], tolerance)
    ELSE IF geometry.type = "MultiPolygon"
    THEN \E k \in 1..Len(geometry.coordinates) :
             distanceToPolygonEdgeAtMost(<<lon, lat>>, geometry.coordinates[k][1],
                                         tolerance)
    ELSE FALSE

\* pointInGeometry with a tolerance argument: the exact test, then, for a
\* positive tolerance, the distance to the nearest outer-ring edge.
pointInGeometryTolerance(lon, lat, geometry, tolerance) ==
    \/ pointInGeometry(lon, lat, geometry)
    \/ tolerance > 0 /\ distanceToGeometryEdgeAtMost(lon, lat, geometry, tolerance)


-----------------------------------------------------------------------------
(* Input domains: what the data files may hold *)

NameA == <<"A">>

NameB == <<"B">>

WrapperA == <<"(", "A", ")">>     \* a composite record, "(A)"

HalfOpenA == <<"(", "A">>         \* "(A": opens a parenthesis, never closes it

Ring(x0, y0, x1, y1) ==
    << <<x0, y0>>, <<x1, y0>>, <<x1, y1>>, <<x0, y1>>, <<x0, y0>> >>

SquareA == [type |-> "Polygon", coordinates |-> << Ring(0, 0, 4, 4) >>]

MultiB == [type |-> "MultiPolygon",
           coordinates |-> << << Ring(2, 2, 6, 6) >>, << Ring(8, 8, 10, 10) >> >>]

\* <<1,1>> lies in SquareA only, <<3,3>> in both, <<9,9>> in the second part
\* of MultiB only, <<7,7>> in neither.
Points == { <<1, 1>>, <<3, 3>>, <<9, 9>>, <<7, 7>> }

Polity(name, from, to, area, geometry) ==
    [Name |-> name, FromYear |-> from, ToYear |-> to, Area |-> area,
     geometry |-> geometry]

NoCall == [op |-> "none", args |-> << >>, ret |-> << >>]

AllSettled == [polities |-> "fulfilled", cities |-> "fulfilled", stats |-> "fulfilled"]

-----------------------------------------------------------------------------
(* Founding-year index (src/js/map.js, loadAllData) *)

SetEntry(obj, key, value) ==
    [k \in DOMAIN obj \cup {key} |-> IF k = key THEN value ELSE obj[k]]

EmptyObject == [k \in {} |-> 0]

RECURSIVE foundingYearsFrom(_, _, _)
foundingYearsFrom(polities, i, index) ==
    IF i > Len(polities) THEN index
    ELSE LET name     == polities[i].Name
             fromYear == polities[i].FromYear
         IN  IF startsWith(name, "(") /\ endsWith(name, ")")
             THEN foundingYearsFrom(polities, i + 1, index)
             ELSE IF name \notin DOMAIN index \/ fromYear < index[name]
             THEN foundingYearsFrom(polities, i + 1, SetEntry(index, name, fromYear))
             ELSE foundingYearsFrom(polities, i + 1, index)

\* The index that keeps the FromYear of the first fragment seen of a name.
RECURSIVE firstSeenYearsFrom(_, _, _)
firstSeenYearsFrom(polities, i, index) ==
    IF i > Len(polities) THEN index
    ELSE LET name     == polities[i].Name
             fromYear == polities[i].FromYear
         IN  IF startsWith(name, "(") /\ endsWith(name, ")")
             THEN firstSeenYearsFrom(polities, i + 1, index)
             ELSE IF name \notin DOMAIN index
             THEN firstSeenYearsFrom(polities, i + 1, SetEntry(index, name, fromYear))
             ELSE firstSeenYearsFrom(polities, i + 1, index)

buildFoundingYearsFirstSeen(polities) == firstSeenYearsFrom(polities, 1, EmptyObject)

buildFoundingYears(polities) == foundingYearsFrom(polities, 1, EmptyObject)

-----------------------------------------------------------------------------
(* The caches of the panels as state.js constructs them, the selection      *)
(* fields of state.js and the window of timeline.js                         *)

\* A quotient the code computes in floating point, kept as numerator and
\* denominator.
Quotient(num, den) == <<num, den>>

MIN_YEAR == -3700

MAX_YEAR == 2024


\* The heatmapData object of state.js: empty point lists.  `object` tells one
\* object from another of equal content; 0 is the one state.js builds.
InitialHeatmapData == [object |-> 0, britain |-> FALSE]

InitPanels ==
    /\ heatmapMode = "off"
    /\ heatmapComputed = FALSE
    /\ heatmapData = InitialHeatmapData
    /\ heatmapLayer = Null
    /\ heatmapLoads = << >>
    /\ graphData = EmptyObject
    /\ graphDataLoaded = FALSE
    /\ graphVisible = FALSE
    /\ preloadPasses = << >>
    /\ infoPanelPinned = FALSE
    /\ selectedLocation = Null
    /\ selectedCity = Null
    /\ selectedRiver = Null
    /\ hoverPriority = Null
    /\ selectedOceanLayer = Null
    /\ pointer = "map"
    /\ locationHistory = << >>
    /\ mapCenter = <<Quotient(30, 1), Quotient(40, 1)>>
    /\ currentZoomLevel = 0
    /\ windowStart = 2 * MIN_YEAR
    /\ windowEnd = 2 * MAX_YEAR

-----------------------------------------------------------------------------
(* Entity visibility filter (src/js/map.js, updateMap) *)

\* The filter with the wrapper test reduced to the opening parenthesis.
visiblePolitiesOpenOnly(polities, year) ==
    SelectSeq(polities,
              LAMBDA f : IF startsWith(f.Name, "(")
                         THEN FALSE
                         ELSE year >= f.FromYear /\ year <= f.ToYear)

\* state.allPolities.filter(...) of updateMap, over the collection it reads.
visiblePolitiesOf(polities, year) ==
    SelectSeq(polities,
              LAMBDA f : IF startsWith(f.Name, "(") /\ endsWith(f.Name, ")")
                         THEN FALSE
                         ELSE year >= f.FromYear /\ year <= f.ToYear)

visiblePolities(year) == visiblePolitiesOf(allPolities, year)

UpdateMap(year) ==
    /\ currentYear' = year
    /\ call' = [op |-> "updateMap", args |-> <<year>>, ret |-> visiblePolities(year)]
    /\ UNCHANGED panelVars
    /\ UNCHANGED <<allPolities, allCities, worldStats, polityFoundingYears,
                   fetches, loadedCount, completeCalls>>

-----------------------------------------------------------------------------
(* Spatial join: which polity controls a point (src/js/utils.js) *)

RECURSIVE polityAtPointFrom(_, _, _, _)
polityAtPointFrom(i, lon, lat, year) ==
    IF i > Len(allPolities) THEN Null
    ELSE LET polity == allPolities[i]
             name   == polity.Name
         IN  IF startsWith(name, "(") /\ endsWith(name, ")")
             THEN polityAtPointFrom(i + 1, lon, lat, year)
             ELSE IF /\ year >= polity.FromYear
                     /\ year <= polity.ToYear
                     /\ pointInGeometry(lon, lat, polity.geometry)
             THEN Some(polity)
             ELSE polityAtPointFrom(i + 1, lon, lat, year)

\* The scan run from the end of the collection: the last match wins.
RECURSIVE polityAtPointDownFrom(_, _, _, _)
polityAtPointDownFrom(i, lon, lat, year) ==
    IF i < 1 THEN Null
    ELSE LET polity == allPolities[i]
             name   == polity.Name
         IN  IF startsWith(name, "(") /\ endsWith(name, ")")
             THEN polityAtPointDownFrom(i - 1, lon, lat, year)
             ELSE IF /\ year >= polity.FromYear
                     /\ year <= polity.ToYear
                     /\ pointInGeometry(lon, lat, polity.geometry)
             THEN Some(polity)
             ELSE polityAtPointDownFrom(i - 1, lon, lat, year)

getPolityAtPointLastWins(lon, lat, year) ==
    polityAtPointDownFrom(Len(allPolities), lon, lat, year)

getPolityAtPoint(lon, lat, year) == polityAtPointFrom(1, lon, lat, year)

\* renderInfoPanel and showPointInfo query the point at state.currentYear.
GetPolityAtPoint(lon, lat) ==
    /\ call' = [op |-> "getPolityAtPoint", args |-> <<lon, lat, currentYear>>,
                ret |-> getPolityAtPoint(lon, lat, currentYear)]
    /\ UNCHANGED panelVars
    /\ UNCHANGED <<allPolities, allCities, worldStats, polityFoundingYears,
                   currentYear, fetches, loadedCount, completeCalls>>

-----------------------------------------------------------------------------
(* Specification of the visibility filter and the point query: the dataset *)
(* is any loaded polity collection, the calls are applied to it.           *)

VisNames == {NameA, NameB, WrapperA, HalfOpenA}

VisIntervals == { <<0, 1>>, <<1, 1>>, <<1, 2>> }

VisYears == -1..3

VisRecords ==
    { Polity(n, iv[1], iv[2], 1, g) :
        n \in VisNames, iv \in VisIntervals, g \in {SquareA, MultiB} }

InitVis ==
    /\ allPolities \in SeqsUpTo(VisRecords, MaxPolities)
    /\ allCities = << >>
    /\ worldStats = << >>
    /\ polityFoundingYears = buildFoundingYears(allPolities)
    /\ currentYear = 1
    /\ fetches = AllSettled
    /\ loadedCount = 3
    /\ completeCalls = 1
    /\ call = NoCall
    /\ InitPanels

NextVis ==
    \/ \E year \in VisYears : UpdateMap(year)
    \/ \E p \in Points : GetPolityAtPoint(p[1], p[2])

SpecVis == InitVis /\ [][NextVis]_vars


-----------------------------------------------------------------------------
(* Claims about the visibility filter and the point query (SpecVis) *)

IsParenthesised(name) ==
    Len(name) >= 1 /\ name[1] = "(" /\ name[Len(name)] = ")"

InRange(f, Y) == f.FromYear <= Y /\ Y <= f.ToYear

\* C1: the visible set computed by updateMap(Y) holds exactly the polities
\* with FromYear <= Y <= ToYear whose Name is not wrapped in parentheses,
\* in the order of state.allPolities.
C1_VisibleSetExact ==
    call.op = "updateMap" =>
        LET Y == call.args[1]
        IN  /\ currentYear = Y
            /\ call.ret = SelectSeq(allPolities,
                              LAMBDA f : InRange(f, Y) /\ ~IsParenthesised(f.Name))

\* updateMap has run on a collection whose first record is an in-range "(A)"
\* wrapper and whose second is an in-range "(A": only the second is visible.
C1_Witness ==
    /\ call.op = "updateMap"
    /\ Len(allPolities) = 2
    /\ allPolities[1].Name = WrapperA
    /\ allPolities[2].Name = HalfOpenA
    /\ InRange(allPolities[1], call.args[1])
    /\ call.ret = <<allPolities[2]>>

\* C2: getPolityAtPoint returns the first polity in state.allPolities order
\* that is visible at Y and whose geometry contains the point (tolerance 0),
\* and null exactly when there is none.
C2_FirstVisibleContaining ==
    call.op = "getPolityAtPoint" =>
        LET lon  == call.args[1]
            lat  == call.args[2]
            Y    == call.args[3]
            hits == { i \in 1..Len(allPolities) :
                        /\ InRange(allPolities[i], Y)
                        /\ ~IsParenthesised(allPolities[i].Name)
                        /\ pointInGeometry(lon, lat, allPolities[i].geometry) }
        IN  IF hits = {}
            THEN call.ret = Null
            ELSE \E i \in hits :
                    /\ \A k \in hits : i <= k
                    /\ call.ret = Some(allPolities[i])

\* Two different visible polities both contain the queried point and the
\* query answered with the one earlier in the collection.
C2_Witness ==
    /\ call.op = "getPolityAtPoint"
    /\ Len(allPolities) = 2
    /\ allPolities[1] # allPolities[2]
    /\ \A i \in 1..2 :
          /\ InRange(allPolities[i], call.args[3])
          /\ ~IsParenthesised(allPolities[i].Name)
          /\ pointInGeometry(call.args[1], call.args[2], allPolities[i].geometry)
    /\ call.ret = Some(allPolities[1])


-----------------------------------------------------------------------------
(* Temporal attribute resolver (src/js/utils.js, getPopulationForYear) *)

RECURSIVE Pow(_, _)
Pow(b, n) == IF n = 0 THEN 1 ELSE b * Pow(b, n - 1)

\* Object.keys(pops).map(Number).sort((a, b) => a - b)
RECURSIVE sortedYears(_)
sortedYears(keys) ==
    IF keys = {} THEN << >>
    ELSE LET least == CHOOSE k \in keys : \A other \in keys : k <= other
         IN  <<least>> \o sortedYears(keys \ {least})

\* The scan that keeps the first earlier year it meets.
RECURSIVE pastYearFirstFrom(_, _, _, _)
pastYearFirstFrom(years, i, year, pastYear) ==
    IF i > Len(years) THEN pastYear
    ELSE pastYearFirstFrom(years, i + 1, year,
                      IF years[i] < year /\ pastYear = Null
                      THEN Some(years[i]) ELSE pastYear)

\* for (const y of years) { if (y < year) pastYear = y; ... }
RECURSIVE pastYearFrom(_, _, _, _)
pastYearFrom(years, i, year, pastYear) ==
    IF i > Len(years) THEN pastYear
    ELSE pastYearFrom(years, i + 1, year,
                      IF years[i] < year THEN Some(years[i]) ELSE pastYear)

\* The scan without the `futureYear === null` test: the last later year.
RECURSIVE futureYearLastFrom(_, _, _, _)
futureYearLastFrom(years, i, year, futureYear) ==
    IF i > Len(years) THEN futureYear
    ELSE futureYearLastFrom(years, i + 1, year,
                        IF years[i] > year THEN Some(years[i]) ELSE futureYear)

\* for (const y of years) { ... if (y > year && futureYear === null) futureYear = y; }
RECURSIVE futureYearFrom(_, _, _, _)
futureYearFrom(years, i, year, futureYear) ==
    IF i > Len(years) THEN futureYear
    ELSE futureYearFrom(years, i + 1, year,
                        IF years[i] > year /\ futureYear = Null
                        THEN Some(years[i]) ELSE futureYear)

\* The exact-match test placed before the minYear test.
notYetAttestedUnlessRecorded(pops, year, minYear) ==
    year < minYear /\ year \notin DOMAIN pops

\* The minYear test off by one.
notYetAttestedInclusive(pops, year, minYear) == year <= minYear

\* if (year < minYear) return null;
notYetAttested(pops, year, minYear) == year < minYear

popStatus(gap) ==
    IF gap <= 50 THEN "interpolated"
    ELSE IF gap <= 200 THEN "estimated"
    ELSE "projected"

\* floor(pop * 0.999^n) in exact arithmetic.  The running value is
\* whole + frac / 1000^k; one step multiplies it by 999/1000.  (The code
\* multiplies doubles; on the sampled values both give the same integer.)
RECURSIVE decayFrom(_, _, _, _)
decayFrom(whole, frac, k, n) ==
    IF k = n THEN whole
    ELSE LET p   == whole * 999
             num == (p % 1000) * Pow(1000, k) + frac * 999
             den == Pow(1000, k + 1)
         IN  decayFrom((p \div 1000) + (num \div den), num % den, k + 1, n)

\* The decay without its floor of 1000.
decayedPopNoFloor(pop, gap) ==
    IF gap > 500 THEN decayFrom(pop, 0, 0, gap - 500) ELSE pop

\* if (gap > 500) pop = Math.max(1000, Math.floor(pop * Math.pow(0.999, gap - 500)));
decayedPop(pop, gap) ==
    IF gap > 500 THEN Max(1000, decayFrom(pop, 0, 0, gap - 500)) ELSE pop

getPopulationForYear(city, year) ==
    LET pops    == city.populations
        years   == sortedYears(DOMAIN pops)
        minYear == city.minYear
    IN  IF notYetAttested(pops, year, minYear) THEN Null
        ELSE IF year \in DOMAIN pops
        THEN Some([pop |-> pops[year], year |-> year, status |-> "recorded"])
        ELSE LET pastYear   == pastYearFrom(years, 1, year, Null)
                 futureYear == futureYearFrom(years, 1, year, Null)
             IN  IF pastYear # Null
                 THEN LET gap == year - pastYear[1]
                      IN  Some([pop    |-> decayedPop(pops[pastYear[1]], gap),
                                year   |-> pastYear[1],
                                status |-> popStatus(gap),
                                gap    |-> gap])
                 ELSE IF futureYear # Null
                 THEN LET gap == futureYear[1] - year
                          pop == pops[futureYear[1]] \div 2
                      IN  Some([pop    |-> Max(500, pop),
                                year   |-> futureYear[1],
                                status |-> "prehistoric",
                                gap    |-> gap])
                 ELSE Null

GetPopulationForYear(i, year) ==
    /\ i \in 1..Len(allCities)
    /\ call' = [op |-> "getPopulationForYear", args |-> <<allCities[i], year>>,
                ret |-> getPopulationForYear(allCities[i], year)]
    /\ UNCHANGED panelVars
    /\ UNCHANGED <<allPolities, allCities, worldStats, polityFoundingYears,
                   currentYear, fetches, loadedCount, completeCalls>>

-----------------------------------------------------------------------------
(* Specification of the resolver: any city, any query year *)

RecordYears == {0, 40, 450, 600}

PopValues == {400, 1200, 2000}

MinYears == {0, 40}

\* Around every threshold of the policy: years before minYear, exact keys,
\* years before all records, and gaps of 10, 50, 51, 200, 201, 500, 501 and
\* 502 after a record.  No query lies more than 502 years after a record, so
\* the decay exponent stays within 0..2 and its arithmetic within 32 bits.
QueryYears == {-50, 0, 20, 40, 50, 51, 200, 201, 450, 500, 501, 502}

Series ==
    UNION { [S -> PopValues] :
              S \in { T \in SUBSET RecordYears : Cardinality(T) <= MaxRecorded } }

City(name, lon, lat, pops, minYear) ==
    [name |-> name, coordinates |-> <<lon, lat>>, populations |-> pops,
     minYear |-> minYear]

\* The data model keeps minYear <= max(keys(populations)).
PopCities ==
    { c \in { City("C", 1, 1, pops, m) : pops \in Series, m \in MinYears } :
        \A k \in DOMAIN c.populations :
            (\A other \in DOMAIN c.populations : other <= k) => c.minYear <= k }

InitPop ==
    /\ allPolities = << >>
    /\ allCities \in { <<c>> : c \in PopCities }
    /\ worldStats = << >>
    /\ polityFoundingYears = EmptyObject
    /\ currentYear = 1
    /\ fetches = AllSettled
    /\ loadedCount = 3
    /\ completeCalls = 1
    /\ call = NoCall
    /\ InitPanels

NextPop == \E year \in QueryYears : GetPopulationForYear(1, year)

SpecPop == InitPop /\ [][NextPop]_vars


-----------------------------------------------------------------------------
(* Claims about getPopulationForYear (SpecPop) *)

PopCall == call.op = "getPopulationForYear"

PopCity == call.args[1]

PopYear == call.args[2]

Recorded == DOMAIN PopCity.populations

EarlierRecorded == { k \in Recorded : k < PopYear }

LaterRecorded == { k \in Recorded : k > PopYear }

Greatest(S) == CHOOSE k \in S : \A other \in S : other <= k

Least(S) == CHOOSE k \in S : \A other \in S : k <= other

\* C3: a query year strictly below the city's minYear yields null, whatever
\* the series holds, even a value recorded at that very year.
C3_NullBeforeMinYear ==
    (PopCall /\ PopYear < PopCity.minYear) => call.ret = Null

\* The query year is below minYear and is itself a recorded year.
C3_Witness ==
    /\ PopCall
    /\ PopYear < PopCity.minYear
    /\ PopYear \in Recorded
    /\ call.ret = Null

\* C4 as stated: a series with a recorded value at year Y yields that value
\* with year = Y and status 'recorded'.
C4_RecordedAlwaysReturned ==
    (PopCall /\ PopYear \in Recorded) =>
        call.ret = Some([pop    |-> PopCity.populations[PopYear],
                         year   |-> PopYear,
                         status |-> "recorded"])

\* C4 amended: a series with a recorded value at year Y, Y >= minYear, yields
\* that value with year = Y and status 'recorded'.
C4_RecordedReturnedFromMinYear ==
    (PopCall /\ PopYear \in Recorded /\ PopYear >= PopCity.minYear) =>
        call.ret = Some([pop    |-> PopCity.populations[PopYear],
                         year   |-> PopYear,
                         status |-> "recorded"])

\* The query year is recorded and is the city's minYear itself.
C4_Witness ==
    /\ PopCall
    /\ PopYear \in Recorded
    /\ PopYear = PopCity.minYear
    /\ call.ret # Null
    /\ call.ret[1].status = "recorded"

\* C5: from minYear on, with no value at the query year and some earlier
\* recorded year, the answer comes from the nearest earlier recorded year P
\* alone: year = P, gap = queryYear - P, status by gap (<= 50 interpolated,
\* <= 200 estimated, else projected), and for gap <= 500 the value of P.
C5_NearestEarlierOnly ==
    (PopCall /\ PopYear >= PopCity.minYear /\ PopYear \notin Recorded
             /\ EarlierRecorded # {}) =>
        LET P   == Greatest(EarlierRecorded)
            gap == PopYear - P
        IN  /\ call.ret # Null
            /\ call.ret[1].year = P
            /\ call.ret[1].gap = gap
            /\ call.ret[1].status =
                   (IF gap <= 50 THEN "interpolated"
                    ELSE IF gap <= 200 THEN "estimated" ELSE "projected")
            /\ gap <= 500 => call.ret[1].pop = PopCity.populations[P]

\* Two earlier recorded years and a later one, all with different values: the
\* nearer earlier year answered with its own value.
C5_Witness ==
    /\ PopCall
    /\ PopYear >= PopCity.minYear
    /\ PopYear \notin Recorded
    /\ Cardinality(EarlierRecorded) = 2
    /\ LaterRecorded # {}
    /\ call.ret # Null
    /\ call.ret[1].year = Greatest(EarlierRecorded)
    /\ call.ret[1].pop # PopCity.populations[Least(EarlierRecorded)]
    /\ call.ret[1].pop # PopCity.populations[Least(LaterRecorded)]
    /\ call.ret[1].status = "interpolated"

\* C6: from minYear on, when every recorded year of a non-empty series is
\* later than the query year, the answer is max(500, floor(F / 2)) for the
\* value F of the nearest later recorded year N, with year = N,
\* gap = N - queryYear and status 'prehistoric'; an empty series yields null.
C6_PrehistoricHalf ==
    /\ (PopCall /\ PopYear >= PopCity.minYear /\ Recorded # {}
                /\ \A k \in Recorded : k > PopYear) =>
           LET N == Least(Recorded)
               F == PopCity.populations[N]
           IN  call.ret = Some([pop    |-> IF F \div 2 >= 500 THEN F \div 2 ELSE 500,
                                year   |-> N,
                                status |-> "prehistoric",
                                gap    |-> N - PopYear])
    /\ (PopCall /\ Recorded = {}) => call.ret = Null

\* Two later recorded years with different values; the nearer one answered,
\* with more than the floor of 500.
C6_Witness ==
    /\ PopCall
    /\ PopYear >= PopCity.minYear
    /\ Cardinality(Recorded) = 2
    /\ \A k \in Recorded : k > PopYear
    /\ PopCity.populations[Least(Recorded)] # PopCity.populations[Greatest(Recorded)]
    /\ call.ret # Null
    /\ call.ret[1].status = "prehistoric"
    /\ call.ret[1].year = Least(Recorded)
    /\ call.ret[1].pop > 500

\* C7: when the gap to the nearest earlier recorded year exceeds 500 the
\* answer is max(1000, floor(v * 0.999^(gap - 500))) for the value v of that
\* year: never below 1000, never above max(1000, v), status 'projected'.
C7_DecayBounded ==
    (PopCall /\ PopYear >= PopCity.minYear /\ PopYear \notin Recorded
             /\ EarlierRecorded # {}
             /\ PopYear - Greatest(EarlierRecorded) > 500) =>
        LET v       == PopCity.populations[Greatest(EarlierRecorded)]
            n       == PopYear - Greatest(EarlierRecorded) - 500
            decayed == (v * Pow(999, n)) \div Pow(1000, n)
        IN  /\ call.ret # Null
            /\ call.ret[1].pop = (IF decayed >= 1000 THEN decayed ELSE 1000)
            /\ call.ret[1].pop >= 1000
            /\ call.ret[1].pop <= (IF v >= 1000 THEN v ELSE 1000)
            /\ call.ret[1].status = "projected"

\* A gap of 502 years: the value 2000 has decayed to 1996, above the floor.
C7_Witness ==
    /\ PopCall
    /\ PopYear \notin Recorded
    /\ EarlierRecorded # {}
    /\ PopYear - Greatest(EarlierRecorded) = 502
    /\ call.ret # Null
    /\ call.ret[1].pop = 1996
    /\ call.ret[1].pop < PopCity.populations[Greatest(EarlierRecorded)]


-----------------------------------------------------------------------------
(* Identity and continuity: the history of a point (src/js/utils.js) *)

\* Array.prototype.sort with (a, b) => a.FromYear - b.FromYear is stable: a
\* record goes after every record already placed whose FromYear is not larger.
RECURSIVE insertByFromYear(_, _)
insertByFromYear(sorted, p) ==
    IF sorted = << >> THEN <<p>>
    ELSE IF Head(sorted).FromYear <= p.FromYear
    THEN <<Head(sorted)>> \o insertByFromYear(Tail(sorted), p)
    ELSE <<p>> \o sorted

RECURSIVE sortByFromYear(_, _, _)
sortByFromYear(polities, i, sorted) ==
    IF i > Len(polities) THEN sorted
    ELSE sortByFromYear(polities, i + 1, insertByFromYear(sorted, polities[i]))

\* history.sort((a, b) => a.fromYear - b.fromYear), stable as well.
RECURSIVE insertEntryByFromYear(_, _)
insertEntryByFromYear(sorted, e) ==
    IF sorted = << >> THEN <<e>>
    ELSE IF Head(sorted).fromYear <= e.fromYear
    THEN <<Head(sorted)>> \o insertEntryByFromYear(Tail(sorted), e)
    ELSE <<e>> \o sorted

RECURSIVE sortHistory(_, _, _)
sortHistory(history, i, sorted) ==
    IF i > Len(history) THEN sorted
    ELSE sortHistory(history, i + 1, insertEntryByFromYear(sorted, history[i]))

\* The first loop: every fragment that contains the point, names opening
\* with "(" skipped, one entry per key Name_FromYear_ToYear.
RECURSIVE collectHistory(_, _, _, _, _, _)
collectHistory(sortedPolities, i, lon, lat, seen, history) ==
    IF i > Len(sortedPolities) THEN history
    ELSE LET polity == sortedPolities[i]
             key    == <<polity.Name, polity.FromYear, polity.ToYear>>
         IN  IF startsWith(polity.Name, "(")
             THEN collectHistory(sortedPolities, i + 1, lon, lat, seen, history)
             ELSE IF pointInGeometry(lon, lat, polity.geometry) /\ key \notin seen
             THEN collectHistory(sortedPolities, i + 1, lon, lat, seen \cup {key},
                      Append(history, [name     |-> polity.Name,
                                       fromYear |-> polity.FromYear,
                                       toYear   |-> polity.ToYear,
                                       area     |-> polity.Area,
                                       polity   |-> polity]))
             ELSE collectHistory(sortedPolities, i + 1, lon, lat, seen, history)

\* The extension that takes the new fragment's end year as it comes.
extendedToYearLatest(last, entry) == entry.toYear

\* last.toYear = Math.max(last.toYear, entry.toYear)
extendedToYear(last, entry) == Max(last.toYear, entry.toYear)

\* The second loop: an entry extends the last merged entry when it has its
\* name and starts at most 5 years after its end; otherwise it is copied.
RECURSIVE mergeHistory(_, _, _)
mergeHistory(history, i, merged) ==
    IF i > Len(history) THEN merged
    ELSE LET entry == history[i]
             n     == Len(merged)
         IN  IF /\ n >= 1
                /\ merged[n].name = entry.name
                /\ entry.fromYear <= merged[n].toYear + 5
             THEN mergeHistory(history, i + 1,
                      [merged EXCEPT ![n].toYear = extendedToYear(merged[n], entry)])
             ELSE mergeHistory(history, i + 1, Append(merged, entry))

\* The entries carry displayName and color as well; both are presentation
\* values derived from Name and MemberOf and take no part in the merge.
getLocationHistory(lon, lat) ==
    LET sortedPolities == sortByFromYear(allPolities, 1, << >>)
        collected      == collectHistory(sortedPolities, 1, lon, lat, {}, << >>)
        history        == sortHistory(collected, 1, << >>)
    IN  mergeHistory(history, 1, << >>)

\* The array that sorts the dataset itself: state.allPolities.sort(...).
allPolitiesSortedInPlace(polities) == sortByFromYear(polities, 1, << >>)

\* state.allPolities after getLocationHistory: the sort orders the spread
\* copy [...state.allPolities], the history entries are new objects, and the
\* merge writes toYear on the copies { ...entry } it has pushed, so that no
\* record of the dataset and no position in it is written.
allPolitiesAfterHistory(polities) == polities

GetLocationHistory(lon, lat) ==
    /\ call' = [op |-> "getLocationHistory", args |-> <<lon, lat>>,
                ret |-> getLocationHistory(lon, lat)]
    /\ allPolities' = allPolitiesAfterHistory(allPolities)
    /\ UNCHANGED panelVars
    /\ UNCHANGED <<allCities, worldStats, polityFoundingYears,
                   currentYear, fetches, loadedCount, completeCalls>>

-----------------------------------------------------------------------------
(* Specification of the history query: fragments around the 5-year gap *)

\* Gaps after [100,150]: 3 years to 153, 5 to 155, 6 to 156; [120,130] lies
\* inside it.
HistIntervals == { <<100, 150>>, <<120, 130>>, <<153, 200>>, <<155, 160>>, <<156, 200>> }

\* "A" with every interval, at the point (SquareA) and away from it (MultiB);
\* "B" as the other polity: inside or level with A's first interval, at the
\* point or away from it; and one record whose name opens a parenthesis.
HistRecords ==
    { Polity(NameA, iv[1], iv[2], 1, g) : iv \in HistIntervals, g \in {SquareA, MultiB} }
    \cup { Polity(NameB, 120, 130, 1, SquareA), Polity(NameB, 120, 130, 1, MultiB),
           Polity(NameB, 100, 150, 1, SquareA) }
    \cup { Polity(HalfOpenA, 120, 130, 1, SquareA) }

\* <<1,1>> lies in SquareA and outside MultiB.
HistPoints == { <<1, 1>> }

InitHist ==
    /\ allPolities \in SeqsUpTo(HistRecords, MaxFragments)
    /\ allCities = << >>
    /\ worldStats = << >>
    /\ polityFoundingYears = buildFoundingYears(allPolities)
    /\ currentYear = 1
    /\ fetches = AllSettled
    /\ loadedCount = 3
    /\ completeCalls = 1
    /\ call = NoCall
    /\ InitPanels

NextHist == \E p \in HistPoints : GetLocationHistory(p[1], p[2])

SpecHist == InitHist /\ [][NextHist]_vars


-----------------------------------------------------------------------------
(* Claims about getLocationHistory (SpecHist) *)

HistCall == call.op = "getLocationHistory"

\* The fragments the history is about: they contain the queried point and
\* their name does not open a parenthesis.
Containing ==
    { i \in 1..Len(allPolities) :
        /\ ~(Len(allPolities[i].Name) >= 1 /\ allPolities[i].Name[1] = "(")
        /\ pointInGeometry(call.args[1], call.args[2], allPolities[i].geometry) }

\* Fragment i comes before fragment j in the stable FromYear order.
Before(i, j) ==
    \/ allPolities[i].FromYear < allPolities[j].FromYear
    \/ allPolities[i].FromYear = allPolities[j].FromYear /\ i < j

\* Fragment j repeats the name, FromYear and ToYear of a fragment before it:
\* the history lists such a key once, at its first fragment.
Repeats(j) ==
    \E i \in Containing :
        /\ Before(i, j)
        /\ allPolities[i].Name = allPolities[j].Name
        /\ allPolities[i].FromYear = allPolities[j].FromYear
        /\ allPolities[i].ToYear = allPolities[j].ToYear

Listed == { i \in Containing : ~Repeats(i) }

SameNamePairs ==
    { pr \in Listed \X Listed :
        /\ Before(pr[1], pr[2])
        /\ allPolities[pr[1]].Name = allPolities[pr[2]].Name }

Gap(pr) == allPolities[pr[2]].FromYear - allPolities[pr[1]].ToYear

LaterEnd(pr) ==
    IF allPolities[pr[1]].ToYear >= allPolities[pr[2]].ToYear
    THEN allPolities[pr[1]].ToYear ELSE allPolities[pr[2]].ToYear

EntriesNamed(n) == { k \in 1..Len(call.ret) : call.ret[k].name = n }

\* Fragments of another name that contain the point and sort between the pair.
StrangersBetween(pr) ==
    { b \in Listed :
        /\ Before(pr[1], b) /\ Before(b, pr[2])
        /\ allPolities[b].Name # allPolities[pr[1]].Name }

\* The pair is all there is of its name at the point.
OnlyPair(pr) ==
    \A i \in Listed :
        allPolities[i].Name = allPolities[pr[1]].Name => i \in {pr[1], pr[2]}

\* The data model's rule: fragments of one name do not overlap in time.
NoSameNameOverlap ==
    \A pr \in SameNamePairs : allPolities[pr[1]].ToYear < allPolities[pr[2]].FromYear

-----------------------------------------------------------------------------
(* World statistics (src/js/utils.js, getWorldStatsForYear) *)

\* for (const s of state.worldStats) { if (s.year <= year) before = s; ... }
RECURSIVE statBeforeFrom(_, _, _)
statBeforeFrom(i, year, before) ==
    IF i > Len(worldStats) THEN before
    ELSE statBeforeFrom(i + 1, year,
             IF worldStats[i].year <= year THEN Some(worldStats[i]) ELSE before)

\* ... if (s.year >= year && !after) after = s; }
RECURSIVE statAfterFrom(_, _, _)
statAfterFrom(i, year, after) ==
    IF i > Len(worldStats) THEN after
    ELSE statAfterFrom(i + 1, year,
             IF worldStats[i].year >= year /\ after = Null
             THEN Some(worldStats[i]) ELSE after)

\* Math.round(from + t * (to - from)) with t = (year - y0) / (y1 - y0), y0 < y1:
\* the nearest integer, halves upwards.
roundedBetween(from, to, year, y0, y1) ==
    LET num == from * (y1 - y0) + (year - y0) * (to - from)
        den == y1 - y0
    IN  (2 * num + den) \div (2 * den)

getWorldStatsForYear(year) ==
    IF Len(worldStats) = 0 THEN Null
    ELSE LET before == statBeforeFrom(1, year, Null)
             after  == statAfterFrom(1, year, Null)
         IN  IF before = Null /\ after = Null THEN Null
             ELSE IF before = Null THEN after
             ELSE IF after = Null THEN before
             ELSE IF before[1].year = after[1].year THEN before
             ELSE Some([year |-> year,
                        population |->
                            roundedBetween(before[1].population, after[1].population,
                                           year, before[1].year, after[1].year),
                        gdp_per_capita |->
                            roundedBetween(before[1].gdp_per_capita,
                                           after[1].gdp_per_capita,
                                           year, before[1].year, after[1].year)])

-----------------------------------------------------------------------------
(* Aggregate metrics (graph panel module, calculateMetricsFast) *)

\* The accumulation that overwrites the area of a name already seen.
addFragmentOverwriting(civData, p) ==
    SetEntry(civData, p.Name,
             [area     |-> p.Area,
              fromYear |-> IF p.Name \in DOMAIN civData
                           THEN Min(civData[p.Name].fromYear, p.FromYear)
                           ELSE p.FromYear])

\* One turn of the loop over visiblePolities: the entry of the name is created
\* on first sight, then the fragment's area is added (Area || 0 is Area for a
\* number) and fromYear lowered to the fragment's FromYear.
addFragment(civData, p) ==
    LET entry == IF p.Name \in DOMAIN civData
                 THEN civData[p.Name]
                 ELSE [area |-> 0, fromYear |-> p.FromYear]
    IN  SetEntry(civData, p.Name,
                 [area     |-> entry.area + p.Area,
                  fromYear |-> Min(entry.fromYear, p.FromYear)])

RECURSIVE civDataFrom(_, _, _)
civDataFrom(polities, i, civData) ==
    IF i > Len(polities) THEN civData
    ELSE civDataFrom(polities, i + 1, addFragment(civData, polities[i]))

\* civList.reduce((sum, [_, c]) => sum + f(c), 0)
RECURSIVE reduceSum(_, _, _)
reduceSum(civData, names, year) ==
    IF names = {} THEN [area |-> 0, age |-> 0]
    ELSE LET n    == CHOOSE x \in names : TRUE
             rest == reduceSum(civData, names \ {n}, year)
         IN  [area |-> rest.area + civData[n].area,
              age  |-> rest.age + (year - civData[n].fromYear)]

\* The loop that counts every city, resolved or not.
RECURSIVE cityTotalsCountingAllFrom(_, _, _)
cityTotalsCountingAllFrom(i, year, acc) ==
    IF i > Len(allCities) THEN acc
    ELSE LET popData == getPopulationForYear(allCities[i], year)
         IN  cityTotalsCountingAllFrom(i + 1, year,
                 [cities   |-> acc.cities + 1,
                  urbanPop |-> acc.urbanPop +
                                   (IF popData # Null THEN popData[1].pop ELSE 0)])

\* The loop over state.allCities.
RECURSIVE cityTotalsFrom(_, _, _)
cityTotalsFrom(i, year, acc) ==
    IF i > Len(allCities) THEN acc
    ELSE LET popData == getPopulationForYear(allCities[i], year)
         IN  cityTotalsFrom(i + 1, year,
                 IF popData # Null
                 THEN [cities |-> acc.cities + 1, urbanPop |-> acc.urbanPop + popData[1].pop]
                 ELSE acc)

\* avgAge is a quotient: it is kept as the fraction sum / count, 0 / 1 for an
\* empty list.  The per-name color is a presentation value and is left out.
calculateMetricsFast(year, visible) ==
    LET stats   == getWorldStatsForYear(year)
        civData == civDataFrom(visible, 1, EmptyObject)
        names   == DOMAIN civData
        sums    == reduceSum(civData, names, year)
        largest == IF names # {}
                   THEN CHOOSE a \in { civData[n].area : n \in names } :
                            \A n \in names : civData[n].area <= a
                   ELSE 0
        cityTotals == cityTotalsFrom(1, year, [cities |-> 0, urbanPop |-> 0])
    IN  [totals |->
            [population     |-> IF stats # Null THEN stats[1].population ELSE 0,
             civilizations  |-> Cardinality(names),
             landArea       |-> sums.area,
             cities         |-> cityTotals.cities,
             urbanPop       |-> cityTotals.urbanPop,
             gdpPerCapita   |-> IF stats # Null THEN stats[1].gdp_per_capita ELSE 0,
             largestEmpire  |-> largest,
             avgAge         |-> IF names # {}
                                THEN [sum |-> sums.age, count |-> Cardinality(names)]
                                ELSE [sum |-> 0, count |-> 1]],
         civs |-> civData]

\* The visible set of the precompute pass (processChunk): the year range only.
preloadVisiblePolities(year) ==
    SelectSeq(allPolities, LAMBDA f : year >= f.FromYear /\ year <= f.ToYear)

\* calculateMetricsFast as its two callers apply it: updateGraph with the
\* visible set of updateMap, processChunk with its own.
CalculateMetricsFast(year, site) ==
    LET visible == IF site = "updateGraph" THEN visiblePolities(year)
                   ELSE preloadVisiblePolities(year)
    IN  /\ call' = [op |-> "calculateMetricsFast", args |-> <<year, visible>>,
                    ret |-> Some(calculateMetricsFast(year, visible))]
        /\ UNCHANGED panelVars
        /\ UNCHANGED <<allPolities, allCities, worldStats, polityFoundingYears,
                       currentYear, fetches, loadedCount, completeCalls>>

-----------------------------------------------------------------------------
(* Specification of the metrics: any loaded dataset, any year *)

MetricNames == {NameA, NameB, WrapperA}

MetricIntervals == { <<0, 1>>, <<1, 2>> }

MetricAreas == {1, 2}

MetricYears == 0..2

MetricRecords ==
    { Polity(n, iv[1], iv[2], a, SquareA) :
        n \in MetricNames, iv \in MetricIntervals, a \in MetricAreas }

\* Cities that pass the 100k filter of the loader.
MetricCities ==
    { City("C", 1, 1, (1 :> 100000), 0),
      City("D", 9, 9, (0 :> 50000) @@ (2 :> 150000), 1) }

SampleStats ==
    << [year |-> 0, population |-> 100, gdp_per_capita |-> 400],
       [year |-> 2, population |-> 201, gdp_per_capita |-> 500] >>

InitMetrics ==
    /\ allPolities \in SeqsUpTo(MetricRecords, MaxPolities)
    /\ allCities \in SeqsUpTo(MetricCities, MaxCities)
    /\ worldStats \in { << >>, SampleStats }
    /\ polityFoundingYears = buildFoundingYears(allPolities)
    /\ currentYear = 1
    /\ fetches = AllSettled
    /\ loadedCount = 3
    /\ completeCalls = 1
    /\ call = NoCall
    /\ InitPanels

NextMetrics ==
    \E year \in MetricYears, site \in {"updateGraph", "processChunk"} :
        CalculateMetricsFast(year, site)

SpecMetrics == InitMetrics /\ [][NextMetrics]_vars

-----------------------------------------------------------------------------
(* Claims about calculateMetricsFast (SpecMetrics) *)

MetricsCall == call.op = "calculateMetricsFast"

RECURSIVE AreaOfAll(_)
AreaOfAll(fragments) ==
    IF fragments = << >> THEN 0
    ELSE Head(fragments).Area + AreaOfAll(Tail(fragments))

\* C10: totals.landArea is the sum of Area over every fragment of the visible
\* set, each counted once (0 for an empty set); a single visible region of
\* area A gives civilizations = 1 and landArea = A.
C10_LandAreaIsSum ==
    MetricsCall =>
        LET V      == call.args[2]
            totals == call.ret[1].totals
        IN  /\ totals.landArea = AreaOfAll(V)
            /\ V = << >> => totals.landArea = 0
            /\ Len(V) = 1 => (totals.civilizations = 1 /\ totals.landArea = V[1].Area)

\* Two visible fragments of one name with areas 1 and 2: landArea is 3.
C10_Witness ==
    /\ MetricsCall
    /\ Len(call.args[2]) = 2
    /\ call.args[2][1].Name = call.args[2][2].Name
    /\ call.args[2][1].Area # call.args[2][2].Area
    /\ call.ret[1].totals.civilizations = 1
    /\ call.ret[1].totals.landArea = 3

\* The names of the visible set handed to the call.
VisibleNames == { call.args[2][i].Name : i \in 1..Len(call.args[2]) }

\* foundingYear(name): the earliest FromYear over all of the name's fragments
\* in the full dataset.
FoundingYearOf(n) ==
    LET froms == { allPolities[i].FromYear : i \in { k \in 1..Len(allPolities) : allPolities[k].Name = n } }
    IN  CHOOSE y \in froms : \A other \in froms : y <= other

RECURSIVE AgeSum(_, _)
AgeSum(names, Y) ==
    IF names = {} THEN 0
    ELSE LET n == CHOOSE x \in names : TRUE
         IN  (Y - FoundingYearOf(n)) + AgeSum(names \ {n}, Y)

\* C11: totals.avgAge is the mean, over the distinct names of the visible
\* set, of Y - foundingYear(name), foundingYear taken over the full dataset
\* and not only over the fragments visible at Y; it is 0 when nothing is
\* visible.  (avgAge = sum / count, compared by cross-multiplication.)
C11_AvgAgeFromFoundingYear ==
    MetricsCall =>
        LET Y      == call.args[1]
            avgAge == call.ret[1].totals.avgAge
        IN  IF VisibleNames = {}
            THEN avgAge.sum = 0
            ELSE avgAge.sum * Cardinality(VisibleNames) =
                     AgeSum(VisibleNames, Y) * avgAge.count

\* The cities that resolve to a value at year Y.
ResolvedCities(Y) ==
    { i \in 1..Len(allCities) : getPopulationForYear(allCities[i], Y) # Null }

RECURSIVE ResolvedPopSum(_, _)
ResolvedPopSum(S, Y) ==
    IF S = {} THEN 0
    ELSE LET i == CHOOSE x \in S : TRUE
         IN  getPopulationForYear(allCities[i], Y)[1].pop + ResolvedPopSum(S \ {i}, Y)

\* C12: totals.cities is the number of cities of state.allCities that
\* getPopulationForYear resolves to a non-null value at Y and totals.urbanPop
\* is the sum of the resolved values of exactly those cities, whatever the
\* visible polity set is.
C12_CitiesFromResolverOnly ==
    MetricsCall =>
        LET Y      == call.args[1]
            totals == call.ret[1].totals
        IN  /\ totals.cities = Cardinality(ResolvedCities(Y))
            /\ totals.urbanPop = ResolvedPopSum(ResolvedCities(Y), Y)

\* A city that resolves to 50000 is counted although no polity is visible;
\* the same city does not resolve one year earlier.
C12_Witness ==
    /\ MetricsCall
    /\ call.args[2] = << >>
    /\ Len(allCities) = 1
    /\ getPopulationForYear(allCities[1], call.args[1] - 1) = Null
    /\ call.ret[1].totals.cities = 1
    /\ call.ret[1].totals.urbanPop = 50000


-----------------------------------------------------------------------------
(* The per-year metrics cache (graph panel module, src/js/app.js)          *)

MaxPasses == 2       \* calls of preloadGraphData in a run

chunkSize == 1       \* years per chunk of a pass (20 in the code, scaled)

\* The years of a pass: the code steps from -3700 to 2024 by 50; the model
\* steps over its own years 0..2 by 2, so that year 1 is no preload year.
\* for (let year = first; year <= last; year += step) years.push(year)
strideYears(first, last, step) ==
    [i \in 1..((last - first) \div step + 1) |-> first + (i - 1) * step]

preloadYears == strideYears(0, 2, 2)

\* The store that drops the snapshot.
storeGraphDataDropped(store, year, data) == store

\* state.graphData[year] = data, on the object `store`.
storeGraphData(store, year, data) == SetEntry(store, year, data)

\* updateGraph: the snapshot of the year is computed and stored.  (The value
\* shown, the delta label and the window of the drawing are presentation.)
updateGraph(year, visible) ==
    storeGraphData(graphData, year, calculateMetricsFast(year, visible))

\* updateMapWithGraph: updateMap, then updateGraph when the panel is visible.
UpdateMapWithGraph(year) ==
    /\ currentYear' = year
    /\ call' = [op |-> "updateMap", args |-> <<year>>, ret |-> visiblePolities(year)]
    /\ graphData' = IF graphVisible THEN updateGraph(year, visiblePolities(year))
                    ELSE graphData
    /\ UNCHANGED <<uiVars, timelineVars, heatmapVars, graphDataLoaded, graphVisible, preloadPasses>>
    /\ UNCHANGED <<allPolities, allCities, worldStats, polityFoundingYears,
                   fetches, loadedCount, completeCalls>>

\* preloadGraphData(callback): with graphDataLoaded set it invokes the
\* callback and returns; otherwise it starts a pass at index 0 and requests
\* the first chunk.
preloadGraphData(loaded) ==
    IF loaded THEN [started |-> FALSE, index |-> 0, callbacks |-> 1]
    ELSE [started |-> TRUE, index |-> 0, callbacks |-> 0]

\* The graph button: the panel is shown or hidden; showing it calls
\* preloadGraphData.
ToggleGraph ==
    /\ graphVisible' = ~graphVisible
    /\ IF ~graphVisible
       THEN /\ Len(preloadPasses) < MaxPasses
            /\ preloadPasses' = Append(preloadPasses, preloadGraphData(graphDataLoaded))
       ELSE UNCHANGED preloadPasses
    /\ UNCHANGED <<uiVars, timelineVars, heatmapVars, graphData, graphDataLoaded>>
    /\ UNCHANGED <<allPolities, allCities, worldStats, polityFoundingYears,
                   currentYear, fetches, loadedCount, completeCalls, call>>

\* The close button of the panel.
GraphClose ==
    /\ graphVisible' = FALSE
    /\ UNCHANGED <<uiVars, timelineVars, heatmapVars, graphData, graphDataLoaded, preloadPasses>>
    /\ UNCHANGED <<allPolities, allCities, worldStats, polityFoundingYears,
                   currentYear, fetches, loadedCount, completeCalls, call>>

\* for (; index < end; index++) { ... storeGraphData(year, data); }
RECURSIVE chunkFrom(_, _, _)
chunkFrom(store, index, end) ==
    IF index >= end THEN store
    ELSE LET year == preloadYears[index + 1]
             data == calculateMetricsFast(year, preloadVisiblePolities(year))
         IN  chunkFrom(storeGraphData(store, year, data), index + 1, end)

\* processChunk of pass k, run by requestAnimationFrame: a pass whose index
\* is below years.length has a chunk requested; the chunk that reaches
\* years.length sets graphDataLoaded and invokes the callback.
ProcessChunk(k) ==
    /\ k \in 1..Len(preloadPasses)
    /\ preloadPasses[k].started
    /\ preloadPasses[k].index < Len(preloadYears)
    /\ LET index == preloadPasses[k].index
           end   == Min(index + chunkSize, Len(preloadYears))
       IN  /\ graphData' = chunkFrom(graphData, index, end)
           /\ preloadPasses' =
                  [preloadPasses EXCEPT
                     ![k].index = end,
                     ![k].callbacks = IF end < Len(preloadYears) THEN @ ELSE @ + 1]
           /\ graphDataLoaded' = IF end < Len(preloadYears) THEN graphDataLoaded
                                 ELSE TRUE
    /\ UNCHANGED <<uiVars, timelineVars, heatmapVars, graphVisible>>
    /\ UNCHANGED <<allPolities, allCities, worldStats, polityFoundingYears,
                   currentYear, fetches, loadedCount, completeCalls, call>>

-----------------------------------------------------------------------------
(* Specification of the graph panel: a loaded dataset, the panel in use *)

\* "A", "B" and the wrapper "(A)", which is in range at every year.
GraphRecords ==
    { Polity(NameA, 0, 1, 1, SquareA), Polity(NameB, 1, 2, 2, SquareA),
      Polity(WrapperA, 0, 2, 3, SquareA) }

GraphYears == 0..2

InitGraph ==
    /\ allPolities \in SeqsUpTo(GraphRecords, MaxPolities)
    /\ allCities = << City("C", 1, 1, (1 :> 100000), 0) >>
    /\ worldStats = SampleStats
    /\ polityFoundingYears = buildFoundingYears(allPolities)
    /\ currentYear = 1
    /\ fetches = AllSettled
    /\ loadedCount = 3
    /\ completeCalls = 1
    /\ call = NoCall
    /\ InitPanels

NextGraph ==
    \/ \E year \in GraphYears : UpdateMapWithGraph(year)
    \/ ToggleGraph
    \/ GraphClose
    \/ \E k \in 1..MaxPasses : ProcessChunk(k)

SpecGraph == InitGraph /\ [][NextGraph]_vars

\* The host keeps running the animation frames it was asked for.
SpecGraphFair == SpecGraph /\ WF_vars(\E k \in 1..MaxPasses : ProcessChunk(k))

-----------------------------------------------------------------------------
(* Claims about state.graphData (SpecGraph) *)

\* C16: state.graphData is append-only: a step neither removes the snapshot
\* stored for a year nor replaces it with one whose totals or per-entity
\* breakdown differ.
C16_GraphDataAppendOnly ==
    [][\A y \in DOMAIN graphData :
           /\ y \in DOMAIN graphData'
           /\ graphData'[y].totals = graphData[y].totals
           /\ graphData'[y].civs = graphData[y].civs]_vars

-----------------------------------------------------------------------------
(* The heatmap cache (src/js/timeline.js) *)

MaxHeatmapLoads == 3     \* calls of loadHeatmapData that fetch, in a run

\* updateHeatmapLayer: the old layer is removed; a new one is built from the
\* data of the mode unless the mode is 'off' or nothing is computed.
updateHeatmapLayer(mode, computed, data) ==
    IF mode = "off" \/ ~computed THEN Null
    ELSE Some([mode |-> mode, data |-> data.object])

\* A click on a heatmap card.  With a mode other than 'off' and
\* heatmapComputed unset, loadHeatmapData passes its guard and awaits its
\* fetches, and the handler awaits it in turn; otherwise the layer is updated
\* at once.
HeatmapCardClick(mode) ==
    /\ heatmapMode' = mode
    /\ IF mode # "off" /\ ~heatmapComputed
       THEN /\ Len(heatmapLoads) < MaxHeatmapLoads
            /\ heatmapLoads' = Append(heatmapLoads, "fetching")
            /\ UNCHANGED <<heatmapComputed, heatmapData, heatmapLayer>>
       ELSE /\ heatmapLayer' = updateHeatmapLayer(mode, heatmapComputed, heatmapData)
            /\ UNCHANGED <<heatmapComputed, heatmapData, heatmapLoads>>
    /\ UNCHANGED <<graphVars, uiVars, timelineVars>>
    /\ UNCHANGED <<allPolities, allCities, worldStats, polityFoundingYears,
                   currentYear, fetches, loadedCount, completeCalls, call>>

\* The fetches of load `id` settle.  With the global file read (and the
\* Britain file merged in when it came) a new data object is installed and
\* heatmapComputed set; a failure is caught and reported.  Either way
\* loadHeatmapData returns and the click handler that awaited it goes on to
\* updateHeatmapLayer, with the mode of that moment.  (The awaits between
\* the responses and the installation read and write no state.)
HeatmapLoadSettles(id, outcome) ==
    /\ id \in 1..Len(heatmapLoads)
    /\ heatmapLoads[id] = "fetching"
    /\ IF outcome = "failed"
       THEN /\ heatmapLoads' = [heatmapLoads EXCEPT ![id] = "failed"]
            /\ UNCHANGED <<heatmapComputed, heatmapData>>
       ELSE /\ heatmapLoads' = [heatmapLoads EXCEPT ![id] = "installed"]
            /\ heatmapData' = [object |-> id, britain |-> outcome = "globalAndBritain"]
            /\ heatmapComputed' = TRUE
    /\ heatmapLayer' = updateHeatmapLayer(heatmapMode, heatmapComputed', heatmapData')
    /\ UNCHANGED heatmapMode
    /\ UNCHANGED <<graphVars, uiVars, timelineVars>>
    /\ UNCHANGED <<allPolities, allCities, worldStats, polityFoundingYears,
                   currentYear, fetches, loadedCount, completeCalls, call>>

-----------------------------------------------------------------------------
(* Specification of the heatmap cache: clicks and fetch completions *)

HeatmapModes == {"off", "contested", "settled"}

HeatmapOutcomes == {"global", "globalAndBritain", "failed"}

InitHeatmap ==
    /\ allPolities = << >>
    /\ allCities = << >>
    /\ worldStats = << >>
    /\ polityFoundingYears = EmptyObject
    /\ currentYear = 1
    /\ fetches = AllSettled
    /\ loadedCount = 3
    /\ completeCalls = 1
    /\ call = NoCall
    /\ InitPanels

NextHeatmap ==
    \/ \E mode \in HeatmapModes : HeatmapCardClick(mode)
    \/ \E id \in 1..MaxHeatmapLoads, outcome \in HeatmapOutcomes :
           HeatmapLoadSettles(id, outcome)

SpecHeatmap == InitHeatmap /\ [][NextHeatmap]_vars

-----------------------------------------------------------------------------
(* Claims about the heatmap cache (SpecHeatmap) *)

\* C15: the heatmap data is installed at most once in a session, and once
\* state.heatmapComputed is true it stays true and state.heatmapData is not
\* assigned again, whatever the order of card clicks and fetch completions.
C15_HeatmapInstalledOnce ==
    /\ [](Cardinality({ id \in 1..Len(heatmapLoads) :
                          heatmapLoads[id] = "installed" }) <= 1)
    /\ [][heatmapComputed => (heatmapComputed' /\ heatmapData' = heatmapData)]_vars

-----------------------------------------------------------------------------
(* City-to-polity matching (src/js/utils.js, src/js/map.js)                *)

\* 0.15 degrees, in hundredths of a degree.
CITY_TERRITORY_TOLERANCE == 15

\* The loop of getCityColor: the first polity of the list handed in that
\* holds the city within the tolerance.
RECURSIVE cityColorFrom(_, _, _, _)
cityColorFrom(visible, i, lon, lat) ==
    IF i > Len(visible) THEN Null
    ELSE IF pointInGeometryTolerance(lon, lat, visible[i].geometry,
                                     CITY_TERRITORY_TOLERANCE)
    THEN Some(visible[i].Name)
    ELSE cityColorFrom(visible, i + 1, lon, lat)

\* The color is a function of the matched polity's Name (lightened by the
\* preset) or the preset's default color: the result is that Name, or null
\* for the default.
getCityColor(city, visible) ==
    cityColorFrom(visible, 1, city.coordinates[1], city.coordinates[2])

\* cities.sort((a, b) => b.pop - a.pop), stable.
RECURSIVE insertByPopDescending(_, _)
insertByPopDescending(sorted, c) ==
    IF sorted = << >> THEN <<c>>
    ELSE IF Head(sorted).pop >= c.pop
    THEN <<Head(sorted)>> \o insertByPopDescending(Tail(sorted), c)
    ELSE <<c>> \o sorted

RECURSIVE citiesInPolityFrom(_, _, _, _)
citiesInPolityFrom(i, polity, year, cities) ==
    IF i > Len(allCities) THEN cities
    ELSE LET city    == allCities[i]
             popData == getPopulationForYear(city, year)
         IN  IF popData # Null
                /\ pointInGeometryTolerance(city.coordinates[1], city.coordinates[2],
                                            polity.geometry, CITY_TERRITORY_TOLERANCE)
             THEN citiesInPolityFrom(i + 1, polity, year,
                      Append(cities, [name    |-> city.name,
                                      pop     |-> popData[1].pop,
                                      founded |-> city.minYear,
                                      coords  |-> city.coordinates]))
             ELSE citiesInPolityFrom(i + 1, polity, year, cities)

RECURSIVE sortCitiesFrom(_, _, _)
sortCitiesFrom(cities, i, sorted) ==
    IF i > Len(cities) THEN sorted
    ELSE sortCitiesFrom(cities, i + 1, insertByPopDescending(sorted, cities[i]))

getCitiesInPolity(polity, year) ==
    sortCitiesFrom(citiesInPolityFrom(1, polity, year, << >>), 1, << >>)

RECURSIVE countCitiesInPolityFrom(_, _, _, _)
countCitiesInPolityFrom(i, polity, cities, year) ==
    IF i > Len(cities) THEN 0
    ELSE countCitiesInPolityFrom(i + 1, polity, cities, year) +
         (IF getPopulationForYear(cities[i], year) # Null
             /\ pointInGeometryTolerance(cities[i].coordinates[1],
                                         cities[i].coordinates[2],
                                         polity.geometry, CITY_TERRITORY_TOLERANCE)
          THEN 1 ELSE 0)

countCitiesInPolity(polity, cities, year) ==
    countCitiesInPolityFrom(1, polity, cities, year)

\* updateMap colors the marker of every city that resolves at the year shown
\* from the visible set of that year.
GetCityColor(i) ==
    /\ i \in 1..Len(allCities)
    /\ getPopulationForYear(allCities[i], currentYear) # Null
    /\ call' = [op |-> "getCityColor",
                args |-> <<allCities[i], visiblePolities(currentYear)>>,
                ret |-> getCityColor(allCities[i], visiblePolities(currentYear))]
    /\ UNCHANGED panelVars
    /\ UNCHANGED <<allPolities, allCities, worldStats, polityFoundingYears,
                   currentYear, fetches, loadedCount, completeCalls>>

\* The territory panel lists the cities of the polity found at the selected
\* point; the leaderboard counts the cities of every visible polity.
GetCitiesInPolity(k) ==
    /\ k \in 1..Len(visiblePolities(currentYear))
    /\ LET polity == visiblePolities(currentYear)[k]
       IN  call' = [op |-> "getCitiesInPolity", args |-> <<polity, currentYear>>,
                    ret |-> [cities |-> getCitiesInPolity(polity, currentYear),
                             count  |-> countCitiesInPolity(polity, allCities,
                                                            currentYear)]]
    /\ UNCHANGED panelVars
    /\ UNCHANGED <<allPolities, allCities, worldStats, polityFoundingYears,
                   currentYear, fetches, loadedCount, completeCalls>>

\* renderInfoPanel for a selected city: state.currentInfoData as it is set.
RenderInfoPanel(i) ==
    /\ i \in 1..Len(allCities)
    /\ LET city      == allCities[i]
           year      == currentYear
           lon       == city.coordinates[1]
           lat       == city.coordinates[2]
           popData   == getPopulationForYear(city, year)
           history   == getLocationHistory(lon, lat)
           containingPolity == getPolityAtPoint(lon, lat, year)
       IN  call' = [op |-> "renderInfoPanel", args |-> <<city, year>>,
                    ret |-> [type       |-> "city",
                             name       |-> city.name,
                             population |-> IF popData # Null
                                            THEN Some(popData[1].pop) ELSE Null,
                             popStatus  |-> IF popData # Null
                                            THEN Some(popData[1].status) ELSE Null,
                             containingPolity |->
                                 IF containingPolity # Null
                                 THEN Some(containingPolity[1].Name) ELSE Null,
                             coords     |-> <<lon, lat>>,
                             history    |-> SelectSeq(history,
                                                LAMBDA h : h.fromYear <= year)]]
    /\ UNCHANGED panelVars
    /\ UNCHANGED <<allPolities, allCities, worldStats, polityFoundingYears,
                   currentYear, fetches, loadedCount, completeCalls>>

-----------------------------------------------------------------------------
(* Specification of the city joins: polities with a coast, cities about it *)

\* Two territories 0.1 degrees apart: x from 0 to 0.4 and from 0.5 to 0.9.
CoastA == [type |-> "Polygon", coordinates |-> << Ring(0, 0, 40, 40) >>]

CoastB == [type |-> "Polygon", coordinates |-> << Ring(50, 0, 90, 40) >>]

\* <<20,20>> lies in CoastA, far from CoastB; <<45,20>> in the gap, 0.05 from
\* both; <<54,20>> in CoastB and 0.14 from CoastA; <<100,20>> 0.1 off CoastB;
\* <<110,20>> 0.2 off CoastB.  No point lies at exactly 0.15 from an edge,
\* where the code's floating-point distance decides.
JoinPoints == { <<20, 20>>, <<45, 20>>, <<54, 20>>, <<100, 20>>, <<110, 20>> }

JoinRecords ==
    { Polity(n, iv[1], iv[2], 1, g) :
        n \in {NameA, NameB}, iv \in { <<0, 1>>, <<1, 2>> }, g \in {CoastA, CoastB} }
    \cup { Polity(WrapperA, 0, 2, 1, CoastA) }

JoinCities ==
    { City("C", p[1], p[2], (1 :> 100000), m) : p \in JoinPoints, m \in {0, 1} }

JoinYears == 0..2

InitJoin ==
    /\ allPolities \in SeqsUpTo(JoinRecords, MaxPolities)
    /\ allCities \in { <<c>> : c \in JoinCities }
    /\ worldStats = << >>
    /\ polityFoundingYears = buildFoundingYears(allPolities)
    /\ currentYear = 1
    /\ fetches = AllSettled
    /\ loadedCount = 3
    /\ completeCalls = 1
    /\ call = NoCall
    /\ InitPanels

NextJoin ==
    \/ \E year \in JoinYears : UpdateMap(year)
    \/ GetCityColor(1)
    \/ \E k \in 1..MaxPolities : GetCitiesInPolity(k)
    \/ RenderInfoPanel(1)

SpecJoin == InitJoin /\ [][NextJoin]_vars

-----------------------------------------------------------------------------
(* Claims about the city joins (SpecJoin) *)

\* The visible polities that hold the point within the tolerance.
ToleranceHits(lon, lat, Y) ==
    { i \in 1..Len(visiblePolities(Y)) :
        pointInGeometryTolerance(lon, lat, visiblePolities(Y)[i].geometry,
                                 CITY_TERRITORY_TOLERANCE) }

\* C13: the polity the info panel reports as containing a city is the first
\* visible polity that holds the city within CITY_TERRITORY_TOLERANCE (null
\* when there is none): the polity getCityColor matches the city to.
C13_InfoPanelJoinsWithTolerance ==
    call.op = "renderInfoPanel" =>
        LET city == call.args[1]
            Y    == call.args[2]
            hits == ToleranceHits(city.coordinates[1], city.coordinates[2], Y)
        IN  /\ call.ret.containingPolity =
                   (IF hits = {} THEN Null
                    ELSE Some(visiblePolities(Y)[Least(hits)].Name))
            /\ call.ret.containingPolity = getCityColor(city, visiblePolities(Y))

-----------------------------------------------------------------------------
(* Display names (src/js/utils.js, getPolityDisplayName) *)

\* String.prototype.trim; the blank stands for every white-space character.
RECURSIVE trimStart(_)
trimStart(s) == IF s # << >> /\ Head(s) = " " THEN trimStart(Tail(s)) ELSE s

RECURSIVE trimEnd(_)
trimEnd(s) ==
    IF s # << >> /\ s[Len(s)] = " " THEN trimEnd(SubSeq(s, 1, Len(s) - 1)) ELSE s

trim(s) == trimEnd(trimStart(s))

\* memberOf.split(';'): the pieces between the semicolons, empty ones included.
RECURSIVE splitFrom(_, _, _, _)
splitFrom(s, i, piece, pieces) ==
    IF i > Len(s) THEN Append(pieces, piece)
    ELSE IF s[i] = ";"
    THEN splitFrom(s, i + 1, << >>, Append(pieces, piece))
    ELSE splitFrom(s, i + 1, Append(piece, s[i]), pieces)

\* The replacement that strips the parentheses only when both are there.
stripParenthesesPaired(s) ==
    IF startsWith(s, "(") /\ endsWith(s, ")") /\ Len(s) >= 2
    THEN SubSeq(s, 2, Len(s) - 1) ELSE s

\* .replace(/^\(|\)$/g, ''): an opening parenthesis at the start goes, and a
\* closing one at the end goes, each whether or not the other is there.
stripParentheses(s) ==
    LET opened == IF startsWith(s, "(") THEN Tail(s) ELSE s
    IN  IF endsWith(opened, ")") THEN SubSeq(opened, 1, Len(opened) - 1) ELSE opened

\* The loop over the parents: the first whose clean text is not the name.
RECURSIVE displayNameFrom(_, _, _)
displayNameFrom(name, parents, i) ==
    IF i > Len(parents) THEN name
    ELSE LET cleanParent == stripParentheses(trim(parents[i]))
         IN  IF cleanParent # name
             THEN name \o <<" ", "(">> \o cleanParent \o <<")">>
             ELSE displayNameFrom(name, parents, i + 1)

\* props.MemberOf || '' is '' for a missing and for an empty MemberOf.
getPolityDisplayName(props) ==
    LET name     == props.Name
        memberOf == IF "MemberOf" \in DOMAIN props THEN props.MemberOf ELSE << >>
        parents  == SelectSeq(splitFrom(memberOf, 1, << >>, << >>),
                              LAMBDA q : trim(q) # << >>)
    IN  displayNameFrom(name, parents, 1)

GetPolityDisplayName(i) ==
    /\ i \in 1..Len(allPolities)
    /\ call' = [op |-> "getPolityDisplayName", args |-> <<allPolities[i]>>,
                ret |-> getPolityDisplayName(allPolities[i])]
    /\ UNCHANGED panelVars
    /\ UNCHANGED <<allPolities, allCities, worldStats, polityFoundingYears,
                   currentYear, fetches, loadedCount, completeCalls>>

-----------------------------------------------------------------------------
(* Specification of the display name: any MemberOf text over the alphabet *)

MaxMemberOf == 5     \* characters in a MemberOf text

MemberOfAlphabet == {"A", "B", "(", ")", ";", " "}

WithMemberOf(p, m) ==
    [Name |-> p.Name, FromYear |-> p.FromYear, ToYear |-> p.ToYear,
     Area |-> p.Area, geometry |-> p.geometry, MemberOf |-> m]

\* "A" and "(A" as names, without a MemberOf property and with every text.
NameRecords ==
    LET plain == { Polity(n, 0, 1, 1, SquareA) : n \in {NameA, HalfOpenA} }
    IN  plain \cup { WithMemberOf(p, m) :
                       p \in plain, m \in SeqsUpTo(MemberOfAlphabet, MaxMemberOf) }

InitName ==
    /\ allPolities \in { <<p>> : p \in NameRecords }
    /\ allCities = << >>
    /\ worldStats = << >>
    /\ polityFoundingYears = buildFoundingYears(allPolities)
    /\ currentYear = 1
    /\ fetches = AllSettled
    /\ loadedCount = 3
    /\ completeCalls = 1
    /\ call = NoCall
    /\ InitPanels

NextName == GetPolityDisplayName(1)

SpecName == InitName /\ [][NextName]_vars

-----------------------------------------------------------------------------
(* Claims about getPolityDisplayName (SpecName) *)

NameCall == call.op = "getPolityDisplayName"

MemberOfText ==
    IF "MemberOf" \in DOMAIN call.args[1] THEN call.args[1].MemberOf ELSE << >>

\* The semicolons of the text, with the positions before and after it.
Cuts == {0, Len(MemberOfText) + 1}
            \cup { i \in 1..Len(MemberOfText) : MemberOfText[i] = ";" }

\* An entry is the text between two neighbouring cuts.
EntrySpans ==
    { sp \in Cuts \X Cuts :
        sp[1] < sp[2] /\ ~\E c \in Cuts : sp[1] < c /\ c < sp[2] }

\* The entry without its leading and trailing blanks.
Trimmed(sp) ==
    LET inked == { i \in (sp[1] + 1)..(sp[2] - 1) : MemberOfText[i] # " " }
    IN  IF inked = {} THEN << >>
        ELSE SubSeq(MemberOfText, Least(inked), Greatest(inked))

\* The trimmed entry less one leading "(" and one trailing ")".
Clean(sp) ==
    LET t    == Trimmed(sp)
        from == IF Len(t) >= 1 /\ t[1] = "(" THEN 2 ELSE 1
        to   == IF Len(t) >= from /\ t[Len(t)] = ")" THEN Len(t) - 1 ELSE Len(t)
    IN  SubSeq(t, from, to)

\* The non-empty entries that do not refer to the polity itself.
ParentSpans ==
    { sp \in EntrySpans : Trimmed(sp) # << >> /\ Clean(sp) # call.args[1].Name }

\* C14: getPolityDisplayName returns 'Name (Parent)' for the first non-empty
\* semicolon-separated MemberOf entry whose text, trimmed and less one
\* leading '(' and one trailing ')', differs from Name, Parent being that
\* text; it returns Name alone when MemberOf is absent, empty or holds only
\* self-references.
C14_FirstForeignParent ==
    NameCall =>
        LET name == call.args[1].Name
        IN  IF ParentSpans = {}
            THEN call.ret = name
            ELSE LET first == CHOOSE sp \in ParentSpans :
                                  \A other \in ParentSpans : sp[1] <= other[1]
                 IN  call.ret = name \o <<" ", "(">> \o Clean(first) \o <<")">>

\* "A" with MemberOf "(A;B)": the first entry "(A" is a self-reference once
\* its parenthesis is stripped, the second gives "A (B)".
C14_Witness ==
    /\ NameCall
    /\ call.args[1].Name = NameA
    /\ MemberOfText = <<"(", "A", ";", "B", ")">>
    /\ call.ret = <<"A", " ", "(", "B", ")">>

-----------------------------------------------------------------------------
(* Geometry functions on any value a caller may pass (src/js/utils.js)     *)
(*                                                                          *)
(* A geometry is Null (null or undefined) or a record that may lack its    *)
(* `type` or its `coordinates`.  A function either returns a value or       *)
(* throws the TypeError of reading a property of null or undefined.         *)

Returned(v) == [threw |-> FALSE, value |-> v]

Threw == [threw |-> TRUE, value |-> "TypeError"]

\* geometry.type, undefined when the object has no such property.
typeOf(geometry) == IF "type" \in DOMAIN geometry THEN geometry.type ELSE "undefined"

\* geometry.coordinates is neither undefined nor absent.
hasCoordinates(geometry) == "coordinates" \in DOMAIN geometry

\* pointInGeometry(lon, lat, geometry, tolerance): geometry.type is read
\* first; a Polygon reads coordinates[0] and hands it to pointInPolygon,
\* which reads its length; a MultiPolygon iterates coordinates and returns
\* at the first part that holds the point, reading poly[0].length of every
\* part before it; the tolerance branch runs when the exact test has failed.
pointInGeometryOutcome(lon, lat, geometry, tolerance) ==
    IF geometry = Null THEN Threw
    ELSE IF typeOf(geometry) = "Polygon"
    THEN IF ~hasCoordinates(geometry) THEN Threw
         ELSE IF geometry.coordinates = << >> THEN Threw
         ELSE Returned(pointInGeometryTolerance(lon, lat, geometry, tolerance))
    ELSE IF typeOf(geometry) = "MultiPolygon"
    THEN IF ~hasCoordinates(geometry) THEN Threw
         ELSE LET parts == geometry.coordinates
                  bad   == { k \in 1..Len(parts) : parts[k] = << >> }
                  hits  == { k \in 1..Len(parts) :
                               /\ \A b \in bad : k < b
                               /\ pointInPolygon(<<lon, lat>>, parts[k][1]) }
              IN  IF hits # {} THEN Returned(TRUE)
                  ELSE IF bad # {} THEN Threw
                  ELSE Returned(pointInGeometryTolerance(lon, lat, geometry, tolerance))
    ELSE Returned(FALSE)

\* Twice polygonArea(coords): the shoelace sum, before its division by 2.
polygonAreaDoubled(coords) ==
    LET n == Len(coords)
        term(i) == LET j == IF i = 1 THEN n ELSE i - 1
                   IN  (coords[j][1] + coords[i][1]) * (coords[j][2] - coords[i][2])
    IN  SumSeq([i \in 1..n |-> term(i)])

Abs(v) == IF v < 0 THEN -v ELSE v

\* The ring getCentroid and getVisualCenter work on: coordinates[0] of a
\* Polygon, the outer ring of the first part of strictly largest area of a
\* MultiPolygon, undefined (Null) otherwise.
selectRing(geometry) ==
    IF geometry = Null THEN Threw
    ELSE IF typeOf(geometry) = "Polygon"
    THEN IF ~hasCoordinates(geometry) THEN Threw
         ELSE IF geometry.coordinates = << >> THEN Returned(Null)
         ELSE Returned(Some(geometry.coordinates[1]))
    ELSE IF typeOf(geometry) = "MultiPolygon"
    THEN IF ~hasCoordinates(geometry) THEN Threw
         ELSE LET parts == geometry.coordinates
                  area(k) == Abs(polygonAreaDoubled(parts[k][1]))
              IN  IF \E k \in 1..Len(parts) : parts[k] = << >> THEN Threw
                  ELSE LET positive == { k \in 1..Len(parts) : area(k) > 0 }
                           largest  == { k \in positive :
                                           \A other \in positive : area(other) <= area(k) }
                       IN  IF positive = {} THEN Returned(Null)
                           ELSE Returned(Some(parts[Least(largest)][1]))
    ELSE Returned(Null)

\* getCentroid: null without a ring or with an empty one, else the average
\* of the ring's points.
getCentroid(geometry) ==
    LET ring == selectRing(geometry)
    IN  IF ring.threw THEN Threw
        ELSE IF ring.value = Null THEN Returned(Null)
        ELSE LET coords == ring.value[1]
             IN  IF Len(coords) = 0 THEN Returned(Null)
                 ELSE Returned(Some(
                          [lat |-> Quotient(SumSeq([i \in 1..Len(coords) |-> coords[i][2]]),
                                            Len(coords)),
                           lng |-> Quotient(SumSeq([i \in 1..Len(coords) |-> coords[i][1]]),
                                            Len(coords))]))

\* a < b for quotients with positive denominators.
QuotientLess(a, b) == a[1] * b[2] < b[1] * a[2]

\* The square of pointToSegmentDistance(px, py, x1, y1, x2, y2): t is
\* clamped to [0, 1], so the nearest point is an end point or the foot of
\* the perpendicular.
segmentDistanceSquared(px, py, x1, y1, x2, y2) ==
    LET dx       == x2 - x1
        dy       == y2 - y1
        lengthSq == dx * dx + dy * dy
        dot      == (px - x1) * dx + (py - y1) * dy
        cross    == (px - x1) * dy - (py - y1) * dx
    IN  IF lengthSq = 0 \/ dot <= 0
        THEN Quotient((px - x1) * (px - x1) + (py - y1) * (py - y1), 1)
        ELSE IF dot >= lengthSq
        THEN Quotient((px - x2) * (px - x2) + (py - y2) * (py - y2), 1)
        ELSE Quotient(cross * cross, lengthSq)

\* The square of pointToPolygonDistance: the loop over the edges (j, i)
\* from edge i on, minDist being the least distance so far (Null: Infinity).
RECURSIVE polygonDistanceFrom(_, _, _, _, _)
polygonDistanceFrom(px, py, coords, i, minDist) ==
    IF i > Len(coords) THEN minDist
    ELSE LET j    == IF i = 1 THEN Len(coords) ELSE i - 1
             dist == segmentDistanceSquared(px, py, coords[j][1], coords[j][2],
                                            coords[i][1], coords[i][2])
         IN  polygonDistanceFrom(px, py, coords, i + 1,
                 IF minDist = Null THEN dist
                 ELSE IF QuotientLess(dist, minDist) THEN dist ELSE minDist)

polygonDistanceSquared(px, py, coords) == polygonDistanceFrom(px, py, coords, 1, Null)

gridSize == 8

\* The ring with every coordinate multiplied by gridSize: the grid points
\* minX + gx * (maxX - minX) / gridSize are integers on that scale.
scaled(coords) ==
    [i \in 1..Len(coords) |-> <<gridSize * coords[i][1], gridSize * coords[i][2]>>]

\* The grid loop of getVisualCenter over the grid points lo..hi (point k
\* has gx = k \div 9 outer, gy = k % 9 inner): <<px, py, dist>> of the inside
\* point farthest from the edges, Null when no point of the range is inside.
\* The loop replaces its best point only by a strictly farther one, so the
\* best of a range is the best of its first half unless the second half
\* holds a strictly farther point.
RECURSIVE gridBest(_, _, _, _, _)
gridBest(origin, extent, ring8, lo, hi) ==
    IF lo = hi
    THEN LET px == gridSize * origin[1] + (lo \div (gridSize + 1)) * extent[1]
             py == gridSize * origin[2] + (lo % (gridSize + 1)) * extent[2]
         IN  IF pointInPolygon(<<px, py>>, ring8)
             THEN <<px, py, polygonDistanceSquared(px, py, ring8)>>
             ELSE Null
    ELSE LET mid    == (lo + hi) \div 2
             first  == gridBest(origin, extent, ring8, lo, mid)
             second == gridBest(origin, extent, ring8, mid + 1, hi)
         IN  IF first = Null THEN second
             ELSE IF second = Null THEN first
             ELSE IF QuotientLess(first[3], second[3]) THEN second
             ELSE first

\* getVisualCenter: of the grid points over the ring's bounding box that lie
\* inside the ring, the first one that is farthest from the edges;
\* getCentroid when no grid point lies inside.
getVisualCenter(geometry) ==
    LET ring == selectRing(geometry)
    IN  IF ring.threw THEN Threw
        ELSE IF ring.value = Null THEN Returned(Null)
        ELSE IF Len(ring.value[1]) = 0 THEN Returned(Null)
        ELSE LET coords == ring.value[1]
                 xs   == { coords[i][1] : i \in 1..Len(coords) }
                 ys   == { coords[i][2] : i \in 1..Len(coords) }
                 origin == <<Least(xs), Least(ys)>>
                 extent == <<Greatest(xs) - Least(xs), Greatest(ys) - Least(ys)>>
                 best == gridBest(origin, extent, scaled(coords), 0,
                                  (gridSize + 1) * (gridSize + 1) - 1)
             IN  IF best = Null THEN getCentroid(geometry)
                 ELSE Returned(Some([lng |-> Quotient(best[1], gridSize),
                                     lat |-> Quotient(best[2], gridSize)]))

\* processLine: the consecutive pairs of a line's points whose haversine
\* distance is not 0, that is, whose points differ.
lineSegments(coords) ==
    SelectSeq([i \in 1..(Len(coords) - 1) |-> <<coords[i], coords[i + 1]>>],
              LAMBDA seg : seg[1] # seg[2])

\* Math.round of the summed haversine lengths: 0 for no segment, else the
\* length of the given segments in kilometres, which is left uncomputed.
roundedLength(segments) ==
    IF segments = << >> THEN 0 ELSE [roundedKmOf |-> segments]

RECURSIVE concatAll(_)
concatAll(seqs) == IF seqs = << >> THEN << >> ELSE Head(seqs) \o concatAll(Tail(seqs))

\* calculateRiverLength: geometry.type is read first; a LineString hands
\* coordinates to processLine, which reads its length; a MultiLineString
\* iterates coordinates; any other type adds nothing.
calculateRiverLength(geometry) ==
    IF geometry = Null THEN Threw
    ELSE IF typeOf(geometry) = "LineString"
    THEN IF ~hasCoordinates(geometry) THEN Threw
         ELSE Returned(roundedLength(lineSegments(geometry.coordinates)))
    ELSE IF typeOf(geometry) = "MultiLineString"
    THEN IF ~hasCoordinates(geometry) THEN Threw
         ELSE Returned(roundedLength(concatAll(
                  [k \in 1..Len(geometry.coordinates) |->
                      lineSegments(geometry.coordinates[k])])))
    ELSE Returned(0)

\* getBoundingBox (utils.js; the heatmap script carries the same code):
\* processCoords descends through the nested arrays to every coordinate
\* pair, so the box is the extent of all points of a line, of all lines, of
\* all rings, or of all rings of all parts; Null stands for the box of no
\* point at all (minima Infinity, maxima -Infinity), which holds no point.
getBoundingBox(geometry) ==
    LET points == IF geometry.type = "LineString" THEN geometry.coordinates
                  ELSE IF geometry.type \in {"Polygon", "MultiLineString"}
                  THEN concatAll(geometry.coordinates)
                  ELSE concatAll(concatAll(geometry.coordinates))
        lons   == { points[i][1] : i \in 1..Len(points) }
        lats   == { points[i][2] : i \in 1..Len(points) }
    IN  IF points = << >> THEN Null
        ELSE [minLon |-> Least(lons), maxLon |-> Greatest(lons),
              minLat |-> Least(lats), maxLat |-> Greatest(lats)]

pointInBoundingBox(lon, lat, bbox) ==
    /\ bbox # Null
    /\ lon >= bbox.minLon /\ lon <= bbox.maxLon
    /\ lat >= bbox.minLat /\ lat <= bbox.maxLat

\* The sampling step of the heatmap script for one grid point and one
\* polity: the polity is skipped when its bounding box does not hold the
\* point, and counted when the script's pointInGeometry, the exact test
\* alone, holds.
heatmapCounts(lon, lat, geometry) ==
    IF ~pointInBoundingBox(lon, lat, getBoundingBox(geometry)) THEN FALSE
    ELSE pointInGeometry(lon, lat, geometry)

\* The arguments of the calls below: the geometry of the first record and
\* the coordinates of the first city, as getCityColor and the panels pass
\* them.
firstGeometry == allPolities[1].geometry

firstLon == allCities[1].coordinates[1]

firstLat == allCities[1].coordinates[2]

PointInGeometry(tolerance) ==
    /\ call' = [op |-> "pointInGeometry",
                args |-> <<firstLon, firstLat, firstGeometry, tolerance>>,
                ret |-> pointInGeometryOutcome(firstLon, firstLat, firstGeometry, tolerance)]
    /\ UNCHANGED <<allPolities, allCities, worldStats, polityFoundingYears,
                   currentYear, fetches, loadedCount, completeCalls, panelVars>>

GetCentroid ==
    /\ call' = [op |-> "getCentroid", args |-> <<firstGeometry>>,
                ret |-> getCentroid(firstGeometry)]
    /\ UNCHANGED <<allPolities, allCities, worldStats, polityFoundingYears,
                   currentYear, fetches, loadedCount, completeCalls, panelVars>>

GetVisualCenter ==
    /\ call' = [op |-> "getVisualCenter", args |-> <<firstGeometry>>,
                ret |-> getVisualCenter(firstGeometry)]
    /\ UNCHANGED <<allPolities, allCities, worldStats, polityFoundingYears,
                   currentYear, fetches, loadedCount, completeCalls, panelVars>>

CalculateRiverLength ==
    /\ call' = [op |-> "calculateRiverLength", args |-> <<firstGeometry>>,
                ret |-> calculateRiverLength(firstGeometry)]
    /\ UNCHANGED <<allPolities, allCities, worldStats, polityFoundingYears,
                   currentYear, fetches, loadedCount, completeCalls, panelVars>>

\* The script's data holds polygons and multipolygons whose parts all have
\* an outer ring.
readableByScript(geometry) ==
    /\ geometry # Null
    /\ hasCoordinates(geometry)
    /\ \/ typeOf(geometry) = "Polygon" /\ geometry.coordinates # << >>
       \/ /\ typeOf(geometry) = "MultiPolygon"
          /\ \A k \in 1..Len(geometry.coordinates) : geometry.coordinates[k] # << >>

HeatmapSample ==
    /\ readableByScript(firstGeometry)
    /\ call' = [op |-> "heatmapSample", args |-> <<firstLon, firstLat, firstGeometry>>,
                ret |-> Returned(heatmapCounts(firstLon, firstLat, firstGeometry))]
    /\ UNCHANGED <<allPolities, allCities, worldStats, polityFoundingYears,
                   currentYear, fetches, loadedCount, completeCalls, panelVars>>

-----------------------------------------------------------------------------
(* Specification of the geometry functions: any geometry value *)

UnitSquare == Ring(0, 0, 1, 1)

FarSquare == Ring(1, 1, 2, 2)

Triangle == << <<0, 0>>, <<2, 0>>, <<0, 2>> >>

\* Flat: a ring without area.
FlatRing == << <<0, 0>>, <<2, 0>> >>

SampleRings == { << >>, UnitSquare, FarSquare, Triangle, FlatRing }

\* Polygons of one ring, and one whose second ring is wider than its outer.
SamplePolygons ==
    { [type |-> "Polygon", coordinates |-> <<r>>] : r \in SampleRings }
        \cup { [type |-> "Polygon", coordinates |-> <<UnitSquare, Ring(0, 0, 2, 2)>>] }

\* MultiPolygons of up to two parts; a part may be an empty array.
SampleMultiPolygons ==
    { [type |-> "MultiPolygon", coordinates |-> parts] :
        parts \in SeqsUpTo({ << >> } \cup { <<r>> : r \in SampleRings }, 2) }

SampleLines ==
    { [type |-> "LineString", coordinates |-> << >>],
      [type |-> "LineString", coordinates |-> << <<0, 0>>, <<0, 0>> >>],
      [type |-> "LineString", coordinates |-> << <<0, 0>>, <<1, 1>>, <<2, 1>> >>],
      [type |-> "MultiLineString", coordinates |-> << >>],
      [type |-> "MultiLineString",
       coordinates |-> << << <<0, 0>>, <<1, 1>> >>, << <<2, 2>> >> >>] }

\* null, objects without coordinates or without a type, and types the
\* functions do not handle.
MissingGeometries ==
    { Null,
      [type |-> "Polygon"], [type |-> "MultiPolygon"],
      [type |-> "LineString"], [type |-> "MultiLineString"],
      [type |-> "Polygon", coordinates |-> << >>],
      [type |-> "Point", coordinates |-> <<1, 1>>],
      [type |-> "GeometryCollection"],
      [coordinates |-> <<UnitSquare>>] }

Geometries ==
    SamplePolygons \cup SampleMultiPolygons \cup SampleLines \cup MissingGeometries

\* Inside UnitSquare, on its edge, outside everything.
SamplePoints == { <<0, 0>>, <<1, 0>>, <<3, 3>> }

GeomTolerances == {0, 1}

InitGeom ==
    /\ allPolities \in { << Polity(NameA, 0, 2, 1, g) >> : g \in Geometries }
    /\ allCities \in { << City("C", p[1], p[2], (1 :> 100000), 0) >> : p \in SamplePoints }
    /\ worldStats = SampleStats
    /\ polityFoundingYears = buildFoundingYears(allPolities)
    /\ currentYear = 1
    /\ fetches = AllSettled
    /\ loadedCount = 3
    /\ completeCalls = 1
    /\ call = NoCall
    /\ InitPanels

NextGeom ==
    \/ \E tolerance \in GeomTolerances : PointInGeometry(tolerance)
    \/ GetCentroid
    \/ GetVisualCenter
    \/ CalculateRiverLength

SpecGeom == InitGeom /\ [][NextGeom]_vars

-----------------------------------------------------------------------------
(* Specification of the bounding-box filter: every small ring, points      *)
(* around it                                                                *)

MaxRing == 3         \* points of a ring drawn from the vertex grid

RingVertices == {0, 2} \X (0..2)

\* Every ring of at most MaxRing vertices; the code closes a ring itself
\* (edge from the last point to the first).
BoxRings == SeqsUpTo(RingVertices, MaxRing)

BoxGeometries ==
    { [type |-> "Polygon", coordinates |-> <<r>>] : r \in BoxRings }
        \cup { g \in SamplePolygons \cup SampleMultiPolygons : readableByScript(g) }

\* Around and on the vertex grid.
BoxPoints == (-1..3) \X (-1..3)

InitBox ==
    /\ allPolities \in { << Polity(NameA, 0, 2, 1, g) >> : g \in BoxGeometries }
    /\ allCities \in { << City("C", p[1], p[2], (1 :> 100000), 0) >> : p \in BoxPoints }
    /\ worldStats = SampleStats
    /\ polityFoundingYears = buildFoundingYears(allPolities)
    /\ currentYear = 1
    /\ fetches = AllSettled
    /\ loadedCount = 3
    /\ completeCalls = 1
    /\ call = NoCall
    /\ InitPanels

NextBox ==
    \/ \E tolerance \in GeomTolerances : PointInGeometry(tolerance)
    \/ HeatmapSample

SpecBox == InitBox /\ [][NextBox]_vars

-----------------------------------------------------------------------------
(* Claims about the geometry functions (SpecGeom, SpecBox) *)

\* The geometry is null, has no coordinates (absent or an empty array), or
\* has a type outside `supported`.
Malformed(geometry, supported) ==
    \/ geometry = Null
    \/ typeOf(geometry) \notin supported
    \/ ~hasCoordinates(geometry)
    \/ geometry.coordinates = << >>

\* C19: geometry functions never throw on missing or malformed geometry:
\* for a geometry that is null, has no coordinates or has an unsupported
\* type, pointInGeometry returns false, getCentroid and getVisualCenter
\* return null and calculateRiverLength returns 0.
C19_MalformedGeometryNeverThrows ==
    /\ (call.op = "pointInGeometry"
          /\ Malformed(call.args[3], {"Polygon", "MultiPolygon"}))
         => (~call.ret.threw /\ call.ret.value = FALSE)
    /\ (call.op \in {"getCentroid", "getVisualCenter"}
          /\ Malformed(call.args[1], {"Polygon", "MultiPolygon"}))
         => (~call.ret.threw /\ call.ret.value = Null)
    /\ (call.op = "calculateRiverLength"
          /\ Malformed(call.args[1], {"LineString", "MultiLineString"}))
         => (~call.ret.threw /\ call.ret.value = 0)

\* The points of the outer rings of a Polygon or a MultiPolygon.
OuterRingPoints(geometry) ==
    LET outer == IF geometry.type = "Polygon" THEN << geometry.coordinates[1] >>
                 ELSE [k \in 1..Len(geometry.coordinates) |-> geometry.coordinates[k][1]]
        points == concatAll(outer)
    IN  { points[i] : i \in 1..Len(points) }

\* The point is strictly outside the bounding box of the given points.
StrictlyOutsideBox(lon, lat, points) ==
    \/ \A q \in points : lon < q[1]
    \/ \A q \in points : lon > q[1]
    \/ \A q \in points : lat < q[2]
    \/ \A q \in points : lat > q[2]

\* C20: for every Polygon or MultiPolygon and every point strictly outside
\* the bounding box of its outer rings, pointInGeometry with tolerance 0 is
\* false; and the script's sample, which tests the bounding box before the
\* exact test, counts a polity exactly when the exact test alone holds.
C20_OutsideBoundingBoxIsOutside ==
    /\ (call.op = "pointInGeometry" /\ readableByScript(call.args[3])
          /\ call.args[4] = 0
          /\ StrictlyOutsideBox(call.args[1], call.args[2], OuterRingPoints(call.args[3])))
         => (~call.ret.threw /\ call.ret.value = FALSE)
    /\ call.op = "heatmapSample"
         => call.ret.value = pointInGeometry(call.args[1], call.args[2], call.args[3])

\* A point left of a triangle, level with its interior: the ray crosses two
\* edges and the point is reported outside.
C20_Witness ==
    /\ call.op = "pointInGeometry"
    /\ call.args[3] = [type |-> "Polygon", coordinates |-> <<Triangle>>]
    /\ call.args[4] = 0
    /\ <<call.args[1], call.args[2]>> = <<-1, 1>>
    /\ call.ret = Returned(FALSE)

-----------------------------------------------------------------------------
(* Polities along a river (src/js/utils.js, getRiverPolities) *)

\* bboxOverlap with touching boxes taken as disjoint.
bboxOverlapStrict(box1, box2) ==
    /\ box1 # Null /\ box2 # Null
    /\ ~(\/ box1.maxLon <= box2.minLon \/ box1.minLon >= box2.maxLon
         \/ box1.maxLat <= box2.minLat \/ box1.minLat >= box2.maxLat)

\* bboxOverlap: not (one box wholly to one side of the other).  A box of no
\* point has maxima -Infinity, below every minimum, and overlaps nothing.
bboxOverlap(box1, box2) ==
    /\ box1 # Null /\ box2 # Null
    /\ ~(\/ box1.maxLon < box2.minLon \/ box1.minLon > box2.maxLon
         \/ box1.maxLat < box2.minLat \/ box1.minLat > box2.maxLat)

\* getRiverPoints: the points of a LineString, of all lines of a
\* MultiLineString in order, and none for any other type.
getRiverPoints(geometry) ==
    IF geometry.type = "LineString" THEN geometry.coordinates
    ELSE IF geometry.type = "MultiLineString" THEN concatAll(geometry.coordinates)
    ELSE << >>

\* Math.max(1, Math.floor(riverPoints.length / 20))
sampleRate(riverPoints) == Max(1, Len(riverPoints) \div 20)

\* The positions the loop `for (i = 0; i < length; i += sampleRate)` visits,
\* counted from 1 as the model's sequences are.
sampledPositions(riverPoints) ==
    { i \in 1..Len(riverPoints) : (i - 1) % sampleRate(riverPoints) = 0 }

\* getColor is a function of the name alone; its value is left uncomputed.
getColor(name) == [colorOf |-> name]

\* getRiverPolities: for each polity of visiblePolities in order, skipped
\* when its box does not overlap the river's; otherwise one entry is pushed
\* at the first sampled point that pointInGeometry (tolerance 0) reports
\* inside, and the loop over the points is left.
getRiverPolities(riverGeometry, visible) ==
    LET riverBbox   == getBoundingBox(riverGeometry)
        riverPoints == getRiverPoints(riverGeometry)
        hit(polity) ==
            /\ bboxOverlap(riverBbox, getBoundingBox(polity.geometry))
            /\ \E i \in sampledPositions(riverPoints) :
                   pointInGeometry(riverPoints[i][1], riverPoints[i][2], polity.geometry)
        hits == SelectSeq(visible, hit)
    IN  [k \in 1..Len(hits) |->
            [name |-> hits[k].Name, color |-> getColor(hits[k].Name), polity |-> hits[k]]]

\* renderRiverPanel: getRiverPolities(f.geometry, visiblePolities) for a
\* feature f of the river, with the polities visible in the current year.
GetRiverPolities(riverGeometry) ==
    /\ call' = [op |-> "getRiverPolities",
                args |-> <<riverGeometry, visiblePolities(currentYear)>>,
                ret |-> getRiverPolities(riverGeometry, visiblePolities(currentYear))]
    /\ UNCHANGED <<allPolities, allCities, worldStats, polityFoundingYears,
                   currentYear, fetches, loadedCount, completeCalls>>
    /\ UNCHANGED panelVars

\* A line of `length` points, all at `elsewhere` but the one at position
\* `at` (counted from 1), which is `here`.
LineThrough(length, at, here, elsewhere) ==
    [type |-> "LineString",
     coordinates |-> [i \in 1..length |-> IF i = at THEN here ELSE elsewhere]]

\* Lines short enough that every vertex is sampled, and lines of 40 and 61
\* vertices (sample rates 2 and 3) whose one vertex inside UnitSquare is or
\* is not among the sampled ones; a river of two lines of 20 points; a
\* river of one point on the corner of UnitSquare; geometries without
\* line points.
SampleRivers ==
    { LineThrough(n, k, <<0, 0>>, <<5, 5>>) :
        n \in {39, 40}, k \in {1, 2, 3, 39} }
        \cup { LineThrough(61, k, <<0, 0>>, <<5, 5>>) : k \in {3, 4, 61} }
        \cup { LineThrough(n, 1, <<1, 1>>, <<0, 1>>) : n \in {1, 2} }
        \cup { [type |-> "MultiLineString",
                coordinates |-> << LineThrough(20, 20, <<0, 0>>, <<5, 5>>).coordinates,
                                   LineThrough(20, k, <<1, 1>>, <<5, 5>>).coordinates >>] :
                 k \in {1, 2} }
        \cup { [type |-> "LineString", coordinates |-> << >>],
               [type |-> "MultiLineString", coordinates |-> << >>],
               [type |-> "Polygon", coordinates |-> <<UnitSquare>>] }

\* Geometries of polities: polygons and multipolygons that have an outer
\* ring in every part.
RiverPolityGeometries ==
    { g \in SamplePolygons \cup SampleMultiPolygons : readableByScript(g) }

InitRiver ==
    /\ allPolities \in
          { << Polity(NameA, 0, 2, 1, g1), Polity(NameB, from, 2, 1, g2) >> :
              from \in {0, 2},
              g1 \in RiverPolityGeometries,
              g2 \in { [type |-> "Polygon", coordinates |-> <<r>>] :
                          r \in {UnitSquare, FarSquare} } }
    /\ allCities = << >>
    /\ worldStats = SampleStats
    /\ polityFoundingYears = buildFoundingYears(allPolities)
    /\ currentYear = 1
    /\ fetches = AllSettled
    /\ loadedCount = 3
    /\ completeCalls = 1
    /\ call = NoCall
    /\ InitPanels

NextRiver == \E river \in SampleRivers : GetRiverPolities(river)

SpecRiver == InitRiver /\ [][NextRiver]_vars

\* Some sampled vertex of the river lies inside the polity's geometry.
SampledVertexInside(riverGeometry, polity) ==
    LET riverPoints == getRiverPoints(riverGeometry)
        rate == Max(1, Len(riverPoints) \div 20)
    IN  \E j \in 0..Len(riverPoints) :
           /\ j * rate < Len(riverPoints)
           /\ pointInGeometry(riverPoints[j * rate + 1][1],
                              riverPoints[j * rate + 1][2], polity.geometry)

\* C21: getRiverPolities returns, in the order of the visible set, exactly
\* the visible polities that have a sampled line vertex (indices 0, r, 2r,
\* ... with r = max(1, floor(n / 20))) inside their geometry, each once; and
\* the boxes of the river and of such a polity overlap.
C21_RiverPolitiesAreSampledHits ==
    call.op = "getRiverPolities" =>
        LET river   == call.args[1]
            visible == call.args[2]
        IN  /\ [k \in 1..Len(call.ret) |-> call.ret[k].polity]
                  = SelectSeq(visible, LAMBDA P : SampledVertexInside(river, P))
            /\ \A k \in 1..Len(call.ret) : call.ret[k].name = call.ret[k].polity.Name
            /\ \A k \in 1..Len(visible) :
                   SampledVertexInside(river, visible[k])
                     => bboxOverlap(getBoundingBox(river),
                                    getBoundingBox(visible[k].geometry))

\* A river of 40 points, sampled at every second one: its third point lies
\* on the corner that UnitSquare holds; of two visible polities, whose
\* boxes both overlap the river's, the first alone is returned.
C21_Witness ==
    /\ call.op = "getRiverPolities"
    /\ call.args[1] = LineThrough(40, 3, <<0, 0>>, <<5, 5>>)
    /\ Len(call.args[2]) = 2
    /\ call.args[2][1].geometry = [type |-> "Polygon", coordinates |-> <<UnitSquare>>]
    /\ Len(call.ret) = 1
    /\ call.ret[1].polity = call.args[2][1]

-----------------------------------------------------------------------------
(* The window of the timeline (src/js/timeline.js) *)

\* windowStart and windowEnd are kept in half years (twice the year): a pan
\* at the deepest level moves the window by 12.5 years.

\* ZOOM_LEVELS, the window sizes in years; the code's index i is i + 1 here.
ZOOM_LEVELS ==
    << [size |-> 5724], [size |-> 2000], [size |-> 1000], [size |-> 500],
       [size |-> 200], [size |-> 100], [size |-> 50] >>

zoomSize(level) == ZOOM_LEVELS[level + 1].size

\* centerWindowOnYear without its adjustment at the upper end.
centerWindowOnYearUnadjusted(level, year) ==
    LET start == Max(2 * MIN_YEAR, 2 * year - zoomSize(level))
    IN  [windowStart |-> start, windowEnd |-> start + 2 * zoomSize(level)]

\* centerWindowOnYear: the window starts half a window before the year, not
\* before MIN_YEAR; if it then ends after MAX_YEAR it is moved to end there.
centerWindowOnYear(level, year) ==
    LET start == Max(2 * MIN_YEAR, 2 * year - zoomSize(level))
        end   == start + 2 * zoomSize(level)
    IN  IF end > 2 * MAX_YEAR
        THEN [windowStart |-> Max(2 * MIN_YEAR, 2 * MAX_YEAR - 2 * zoomSize(level)),
              windowEnd |-> 2 * MAX_YEAR]
        ELSE [windowStart |-> start, windowEnd |-> end]

\* panTimeline: a quarter of the window to the left or to the right.
panTimeline(level, direction, start, end) ==
    LET panAmount == zoomSize(level) \div 2
    IN  IF direction = "left"
        THEN LET newStart == Max(2 * MIN_YEAR, start - panAmount)
             IN  [windowStart |-> newStart, windowEnd |-> newStart + 2 * zoomSize(level)]
        ELSE LET newEnd   == Min(2 * MAX_YEAR, end + panAmount)
                 newStart == newEnd - 2 * zoomSize(level)
             IN  IF newStart < 2 * MIN_YEAR
                 THEN [windowStart |-> 2 * MIN_YEAR,
                       windowEnd |-> 2 * MIN_YEAR + 2 * zoomSize(level)]
                 ELSE [windowStart |-> newStart, windowEnd |-> newEnd]

TimelineFrame ==
    /\ UNCHANGED <<allPolities, allCities, worldStats, polityFoundingYears,
                   currentYear, fetches, loadedCount, completeCalls>>
    /\ UNCHANGED <<heatmapVars, graphVars, uiVars>>

CenterWindowOnYear(year) ==
    /\ call' = [op |-> "centerWindowOnYear", args |-> <<year>>, ret |-> << >>]
    /\ windowStart' = centerWindowOnYear(currentZoomLevel, year).windowStart
    /\ windowEnd' = centerWindowOnYear(currentZoomLevel, year).windowEnd
    /\ UNCHANGED currentZoomLevel
    /\ TimelineFrame

PanTimeline(direction) ==
    /\ call' = [op |-> "panTimeline", args |-> <<direction>>, ret |-> << >>]
    /\ windowStart' = panTimeline(currentZoomLevel, direction, windowStart, windowEnd).windowStart
    /\ windowEnd' = panTimeline(currentZoomLevel, direction, windowStart, windowEnd).windowEnd
    /\ UNCHANGED currentZoomLevel
    /\ TimelineFrame

ZoomIn ==
    /\ call' = [op |-> "zoomIn", args |-> <<currentZoomLevel>>, ret |-> << >>]
    /\ IF currentZoomLevel >= Len(ZOOM_LEVELS) - 1
       THEN UNCHANGED timelineVars
       ELSE /\ currentZoomLevel' = currentZoomLevel + 1
            /\ windowStart' = centerWindowOnYear(currentZoomLevel + 1, currentYear).windowStart
            /\ windowEnd' = centerWindowOnYear(currentZoomLevel + 1, currentYear).windowEnd
    /\ TimelineFrame

ZoomOut ==
    /\ call' = [op |-> "zoomOut", args |-> <<currentZoomLevel>>, ret |-> << >>]
    /\ IF currentZoomLevel <= 0
       THEN UNCHANGED timelineVars
       ELSE /\ currentZoomLevel' = currentZoomLevel - 1
            /\ IF currentZoomLevel - 1 = 0
               THEN /\ windowStart' = 2 * MIN_YEAR
                    /\ windowEnd' = 2 * MAX_YEAR
               ELSE /\ windowStart' = centerWindowOnYear(currentZoomLevel - 1, currentYear).windowStart
                    /\ windowEnd' = centerWindowOnYear(currentZoomLevel - 1, currentYear).windowEnd
    /\ TimelineFrame

\* Years the window is centred on: the ends of the range, years within half
\* a deepest window of them, years outside the range.
CenterYears == {-5000, MIN_YEAR, MIN_YEAR + 20, 0, 1, MAX_YEAR - 20, MAX_YEAR, 3000}

TimelineYears == {MIN_YEAR, 1, MAX_YEAR}

InitTimeline ==
    /\ allPolities = << >>
    /\ allCities = << >>
    /\ worldStats = SampleStats
    /\ polityFoundingYears = EmptyObject
    /\ currentYear \in TimelineYears
    /\ fetches = AllSettled
    /\ loadedCount = 3
    /\ completeCalls = 1
    /\ call = NoCall
    /\ InitPanels

NextTimeline ==
    \/ ZoomIn
    \/ ZoomOut
    \/ \E direction \in {"left", "right"} : PanTimeline(direction)
    \/ \E year \in CenterYears : CenterWindowOnYear(year)

SpecTimeline == InitTimeline /\ [][NextTimeline]_vars

\* The zoom level is one of the seven, the window lies within
\* [-3700, 2024], starts before it ends and is as long as the size of its
\* level.
WindowWithinRange ==
    /\ currentZoomLevel \in 0..6
    /\ 2 * (-3700) <= windowStart
    /\ windowStart < windowEnd
    /\ windowEnd <= 2 * 2024
    /\ windowEnd - windowStart = 2 * ZOOM_LEVELS[currentZoomLevel + 1].size

\* zoomIn at the deepest level and zoomOut at the full level change neither
\* the level nor the window.
ZoomAtTheEndsIsIdle ==
    (\/ call'.op = "zoomIn" /\ currentZoomLevel = 6
     \/ call'.op = "zoomOut" /\ currentZoomLevel = 0)
        => UNCHANGED timelineVars

\* C29: after any sequence of zoomIn, zoomOut, panTimeline and
\* centerWindowOnYear, 0 <= currentZoomLevel <= 6, -3700 <= windowStart <
\* windowEnd <= 2024 and windowEnd - windowStart is the size of the level;
\* zoomIn at the deepest and zoomOut at the full level change nothing.
C29_WindowStaysWithinRange ==
    []WindowWithinRange /\ [][ZoomAtTheEndsIsIdle]_vars

\* At the deepest level, panned by 12.5 years off a window centred near the
\* upper end, and zoomIn was called once more.
C29_Witness ==
    /\ currentZoomLevel = 6
    /\ call.op = "zoomIn" /\ call.args = <<6>>
    /\ windowEnd = 2 * MAX_YEAR - 25

-----------------------------------------------------------------------------
(* Selection, hover and navigation: the handlers of the territory, city,   *)
(* river and ocean layers, of the map, of the info panel, of the           *)
(* leaderboard and of the jump indicator (src/js/map.js, terrain.js,       *)
(* utils.js, leaderboard.js, app.js).  Styles, tooltips and the rendered   *)
(* panel are left out; selectedRiverSystem and selectedCoords are set and  *)
(* cleared together with selectedRiver and selectedCity.                   *)

MaxHistory == 3      \* entries of state.locationHistory

\* terrainState as terrain.js constructs it.
oceanTooltips == TRUE

riverHover == "on"

riverSensitivity == "standard"

cityHover == "on"

citySensitivity == "standard"

\* The cities of the hit layer, the river feature and the ocean layer.
UiCities == {"Ur", "Kish"}

cityCoordinates(city) == IF city = "Ur" THEN <<1, 1>> ELSE <<3, 1>>

TheRiver == "Euphrates"

TheOcean == "Gulf"

\* e.latlng of a mouse event, as [lng, lat].
EventPoints == { <<1, 1>>, <<2, 2>> }

\* The targets with hover priority; the pointer is over one of them, over a
\* territory, over the bare map, or over the panels beside the map.
PriorityTargets == UiCities \cup {"river", "ocean"}

\* coords.reduce(sum) / coords.length over the points of a ring.
vertexMean(coords) ==
    << Quotient(SumSeq([i \in 1..Len(coords) |-> coords[i][1]]), Len(coords)),
       Quotient(SumSeq([i \in 1..Len(coords) |-> coords[i][2]]), Len(coords)) >>

\* The ring showPolityInfo and the leaderboard average: the outer ring of a
\* Polygon, of the first part of a MultiPolygon.
firstRing(geometry) ==
    IF geometry.type = "Polygon" THEN geometry.coordinates[1]
    ELSE geometry.coordinates[1][1]

\* showPolityInfo with hoverPriority left out of account.
showPolityInfoIgnoringPriority(pinned, priority, location, geometry, click) ==
    IF pinned THEN location
    ELSE [type |-> "point",
          coords |-> IF click # Null THEN click[1] ELSE vertexMean(firstRing(geometry)),
          isHover |-> click = Null]

\* showPolityInfo(props, geometry, clickLon, clickLat): the value of
\* state.selectedLocation after the call; `click` is null for a hover.
showPolityInfo(pinned, priority, location, geometry, click) ==
    IF pinned THEN location
    ELSE IF priority # Null THEN location
    ELSE [type |-> "point",
          coords |-> IF click # Null THEN click[1] ELSE vertexMean(firstRing(geometry)),
          isHover |-> click = Null]

\* showPointInfo: the selection it installs (it has no isHover).
showPointInfo(lon, lat) == [type |-> "point", coords |-> <<lon, lat>>]

\* showCompoundInfo with coords given: the selection it installs.
showCompoundInfo(city, coords, river, isHover) ==
    [type |-> "compound", coords |-> coords, city |-> city, river |-> river,
     isHover |-> isHover]

\* The Back button without its reset at the starting point.
jumpIndicatorReturnKeepingStart(history) ==
    IF Len(history) > 1 THEN SubSeq(history, 1, Len(history) - 1) ELSE history

\* The Back button of the jump indicator: with more than one entry the last
\* is popped, and a history left with the starting point alone is cleared.
jumpIndicatorReturn(history) ==
    IF Len(history) > 1
    THEN IF Len(history) - 1 = 1 THEN << >>
         ELSE SubSeq(history, 1, Len(history) - 1)
    ELSE history

\* The leaderboard item's pushes: the starting point first when the history
\* is empty, then the location navigated to.
leaderboardPush(history, center, name, lat, lon) ==
    LET started == IF Len(history) = 0
                   THEN << [coords |-> center, territoryName |-> "Starting point",
                            territoryColor |-> "#888"] >>
                   ELSE history
    IN  Append(started, [coords |-> <<lat, lon>>, territoryName |-> name,
                         territoryColor |-> getColor(name)])

UiFrame ==
    /\ UNCHANGED <<allPolities, allCities, worldStats, polityFoundingYears,
                   currentYear, fetches, loadedCount, completeCalls, call>>
    /\ UNCHANGED <<heatmapVars, graphVars, timelineVars>>

\* The territory under the pointer: its layer handlers are bound to one
\* feature of the polity layer.
PolityMouseOver(k) ==
    /\ pointer = "map"
    /\ k \in 1..Len(visiblePolities(currentYear))
    /\ pointer' = "territory"
    /\ selectedLocation' =
          showPolityInfo(infoPanelPinned, hoverPriority, selectedLocation,
                         visiblePolities(currentYear)[k].geometry, Null)
    /\ UNCHANGED <<infoPanelPinned, selectedCity, selectedRiver, hoverPriority,
                   selectedOceanLayer, locationHistory, mapCenter>>
    /\ UiFrame

\* mouseout of a territory: hideInfo, which hides the panel and writes no
\* field.
PolityMouseOut ==
    /\ pointer = "territory"
    /\ pointer' = "map"
    /\ UNCHANGED <<infoPanelPinned, selectedLocation, selectedCity, selectedRiver,
                   hoverPriority, selectedOceanLayer, locationHistory, mapCenter>>
    /\ UiFrame

\* click of a territory, not handled by a city or a river: the selected
\* city and river are reset, then infoPanelPinned = false,
\* showPolityInfo(..., lng, lat), pinInfoPanel().
PolityClick(k, point) ==
    /\ pointer = "territory"
    /\ k \in 1..Len(visiblePolities(currentYear))
    /\ selectedCity' = Null
    /\ selectedRiver' = Null
    /\ selectedLocation' =
          showPolityInfo(FALSE, hoverPriority, selectedLocation,
                         visiblePolities(currentYear)[k].geometry, Some(point))
    /\ infoPanelPinned' = TRUE
    /\ UNCHANGED <<hoverPriority, selectedOceanLayer, pointer, locationHistory, mapCenter>>
    /\ UiFrame

CityMouseOver(city) ==
    /\ pointer = "map"
    /\ pointer' = city
    /\ IF citySensitivity = "off" \/ selectedCity = Some(city)
       THEN UNCHANGED <<hoverPriority, selectedLocation>>
       ELSE IF cityHover = "on" /\ ~infoPanelPinned
       THEN /\ hoverPriority' = Some("city")
            /\ selectedLocation' =
                  showCompoundInfo(Some(city), cityCoordinates(city), Null, TRUE)
       ELSE UNCHANGED <<hoverPriority, selectedLocation>>
    /\ UNCHANGED <<infoPanelPinned, selectedCity, selectedRiver,
                   selectedOceanLayer, locationHistory, mapCenter>>
    /\ UiFrame

\* mouseout of a city: it returns before the reset of hoverPriority when
\* the city is the selected one or the panel is pinned.
CityMouseOut ==
    /\ pointer \in UiCities
    /\ pointer' = "map"
    /\ IF citySensitivity = "off" \/ selectedCity = Some(pointer) \/ infoPanelPinned
       THEN UNCHANGED hoverPriority
       ELSE hoverPriority' = Null
    /\ UNCHANGED <<infoPanelPinned, selectedLocation, selectedCity, selectedRiver,
                   selectedOceanLayer, locationHistory, mapCenter>>
    /\ UiFrame

\* click of a city: infoPanelPinned = false, the city is selected, the
\* river findRiverNearPoint finds near it (or none) is selected,
\* showCompoundInfo, pinInfoPanel().
CityClick(riverData) ==
    /\ pointer \in UiCities
    /\ selectedCity' = Some(pointer)
    /\ selectedRiver' = riverData
    /\ selectedLocation' =
          showCompoundInfo(Some(pointer), cityCoordinates(pointer), riverData, FALSE)
    /\ infoPanelPinned' = TRUE
    /\ UNCHANGED <<hoverPriority, selectedOceanLayer, pointer, locationHistory, mapCenter>>
    /\ UiFrame

RiverMouseOver(point) ==
    /\ pointer = "map"
    /\ pointer' = "river"
    /\ IF riverSensitivity # "off" /\ riverHover = "on" /\ ~infoPanelPinned
       THEN /\ hoverPriority' = Some("river")
            /\ selectedLocation' = showCompoundInfo(Null, point, Some(TheRiver), TRUE)
       ELSE UNCHANGED <<hoverPriority, selectedLocation>>
    /\ UNCHANGED <<infoPanelPinned, selectedCity, selectedRiver,
                   selectedOceanLayer, locationHistory, mapCenter>>
    /\ UiFrame

RiverMouseMove(point) ==
    /\ pointer = "river"
    /\ IF riverSensitivity # "off" /\ ~infoPanelPinned /\ riverHover = "on"
       THEN selectedLocation' = showCompoundInfo(Null, point, Some(TheRiver), TRUE)
       ELSE UNCHANGED selectedLocation
    /\ UNCHANGED <<infoPanelPinned, selectedCity, selectedRiver, hoverPriority,
                   selectedOceanLayer, pointer, locationHistory, mapCenter>>
    /\ UiFrame

RiverMouseOut ==
    /\ pointer = "river"
    /\ pointer' = "map"
    /\ IF riverSensitivity # "off" THEN hoverPriority' = Null
       ELSE UNCHANGED hoverPriority
    /\ UNCHANGED <<infoPanelPinned, selectedLocation, selectedCity, selectedRiver,
                   selectedOceanLayer, locationHistory, mapCenter>>
    /\ UiFrame

\* click of a river: infoPanelPinned = false, the river is selected, the
\* city findCityAtPoint finds at the point (or none) is selected, the ocean
\* selection is reset, showCompoundInfo, pinInfoPanel().
RiverClick(point, city) ==
    /\ pointer = "river"
    /\ selectedRiver' = Some(TheRiver)
    /\ selectedCity' = city
    /\ selectedOceanLayer' = Null
    /\ selectedLocation' = showCompoundInfo(city, point, Some(TheRiver), FALSE)
    /\ infoPanelPinned' = TRUE
    /\ UNCHANGED <<hoverPriority, pointer, locationHistory, mapCenter>>
    /\ UiFrame

OceanMouseOver(point) ==
    /\ pointer = "map"
    /\ pointer' = "ocean"
    /\ hoverPriority' = Some("ocean")
    /\ IF ~infoPanelPinned /\ oceanTooltips
       THEN selectedLocation' = [type |-> "point", coords |-> point, isHover |-> TRUE]
       ELSE UNCHANGED selectedLocation
    /\ UNCHANGED <<infoPanelPinned, selectedCity, selectedRiver,
                   selectedOceanLayer, locationHistory, mapCenter>>
    /\ UiFrame

OceanMouseOut ==
    /\ pointer = "ocean"
    /\ pointer' = "map"
    /\ hoverPriority' = IF hoverPriority = Some("ocean") THEN Null ELSE hoverPriority
    /\ UNCHANGED <<infoPanelPinned, selectedLocation, selectedCity, selectedRiver,
                   selectedOceanLayer, locationHistory, mapCenter>>
    /\ UiFrame

\* click of the ocean: the selected ocean is deselected and the panel
\* unpinned (unpinInfoPanel); another is selected, infoPanelPinned = false,
\* showPointInfo(lon, lat), which pins.
OceanClick(point) ==
    /\ pointer = "ocean"
    /\ IF selectedOceanLayer = Some(TheOcean)
       THEN /\ selectedOceanLayer' = Null
            /\ infoPanelPinned' = FALSE
            /\ selectedLocation' = Null
            /\ selectedCity' = Null
            /\ selectedRiver' = Null
            /\ locationHistory' = << >>
       ELSE /\ selectedOceanLayer' = Some(TheOcean)
            /\ selectedLocation' = showPointInfo(point[1], point[2])
            /\ infoPanelPinned' = TRUE
            /\ UNCHANGED <<selectedCity, selectedRiver, locationHistory>>
    /\ UNCHANGED <<hoverPriority, pointer, mapCenter>>
    /\ UiFrame

\* click of the map that no layer handled: unpinInfoPanel() if pinned, then
\* showPointInfo(lon, lat), which pins.
MapClick(point) ==
    /\ pointer = "map"
    /\ IF infoPanelPinned
       THEN /\ selectedCity' = Null
            /\ selectedRiver' = Null
            /\ locationHistory' = << >>
       ELSE UNCHANGED <<selectedCity, selectedRiver, locationHistory>>
    /\ selectedLocation' = showPointInfo(point[1], point[2])
    /\ infoPanelPinned' = TRUE
    /\ UNCHANGED <<hoverPriority, selectedOceanLayer, pointer, mapCenter>>
    /\ UiFrame

\* The pointer moves between the map and the panels beside it.
PointerToPanel ==
    /\ pointer = "map"
    /\ pointer' = "panel"
    /\ UNCHANGED <<infoPanelPinned, selectedLocation, selectedCity, selectedRiver,
                   hoverPriority, selectedOceanLayer, locationHistory, mapCenter>>
    /\ UiFrame

PointerToMap ==
    /\ pointer = "panel"
    /\ pointer' = "map"
    /\ UNCHANGED <<infoPanelPinned, selectedLocation, selectedCity, selectedRiver,
                   hoverPriority, selectedOceanLayer, locationHistory, mapCenter>>
    /\ UiFrame

\* unpinInfoPanel, the click handler of the panel's close buttons.
UnpinInfoPanel ==
    /\ pointer = "panel"
    /\ infoPanelPinned' = FALSE
    /\ selectedLocation' = Null
    /\ selectedCity' = Null
    /\ selectedRiver' = Null
    /\ locationHistory' = << >>
    /\ UNCHANGED <<hoverPriority, selectedOceanLayer, pointer, mapCenter>>
    /\ UiFrame

\* click of a leaderboard item: the polity of that name among the visible
\* ones; the history is pushed, the map moved to the mean of the ring, and
\* showPointInfo(lon, lat) pins the panel there.
LeaderboardItemClick(k) ==
    /\ pointer = "panel"
    /\ k \in 1..Len(visiblePolities(currentYear))
    /\ Len(locationHistory) < MaxHistory
    /\ LET polity == visiblePolities(currentYear)[k]
           mean   == vertexMean(firstRing(polity.geometry))
       IN  /\ locationHistory' = leaderboardPush(locationHistory, mapCenter,
                                                 polity.Name, mean[2], mean[1])
           /\ mapCenter' = <<mean[2], mean[1]>>
           /\ selectedLocation' = showPointInfo(mean[1], mean[2])
           /\ infoPanelPinned' = TRUE
    /\ UNCHANGED <<selectedCity, selectedRiver, hoverPriority, selectedOceanLayer, pointer>>
    /\ UiFrame

\* click of Back on the jump indicator.
JumpIndicatorReturn ==
    /\ pointer = "panel"
    /\ locationHistory' = jumpIndicatorReturn(locationHistory)
    /\ mapCenter' = IF Len(locationHistory) > 1
                    THEN locationHistory[Len(locationHistory) - 1].coords
                    ELSE mapCenter
    /\ UNCHANGED <<infoPanelPinned, selectedLocation, selectedCity, selectedRiver,
                   hoverPriority, selectedOceanLayer, pointer>>
    /\ UiFrame

\* click of the close button of the jump indicator.
JumpIndicatorClose ==
    /\ pointer = "panel"
    /\ locationHistory' = << >>
    /\ UNCHANGED <<infoPanelPinned, selectedLocation, selectedCity, selectedRiver,
                   hoverPriority, selectedOceanLayer, pointer, mapCenter>>
    /\ UiFrame

\* Two territories visible in the year shown; B is a MultiPolygon.
InitUi ==
    /\ allPolities =
          << Polity(NameA, 0, 2, 1, [type |-> "Polygon", coordinates |-> <<Triangle>>]),
             Polity(NameB, 0, 2, 1,
                    [type |-> "MultiPolygon", coordinates |-> << <<FarSquare>> >>]) >>
    /\ allCities = << >>
    /\ worldStats = SampleStats
    /\ polityFoundingYears = buildFoundingYears(allPolities)
    /\ currentYear = 1
    /\ fetches = AllSettled
    /\ loadedCount = 3
    /\ completeCalls = 1
    /\ call = NoCall
    /\ InitPanels

NextUi ==
    \/ \E k \in 1..MaxPolities : PolityMouseOver(k)
    \/ PolityMouseOut
    \/ \E k \in 1..MaxPolities, point \in EventPoints : PolityClick(k, point)
    \/ \E city \in UiCities : CityMouseOver(city)
    \/ CityMouseOut
    \/ \E riverData \in {Null, Some(TheRiver)} : CityClick(riverData)
    \/ \E point \in EventPoints : RiverMouseOver(point)
    \/ \E point \in EventPoints : RiverMouseMove(point)
    \/ RiverMouseOut
    \/ \E point \in EventPoints, city \in {Null, Some("Ur")} : RiverClick(point, city)
    \/ \E point \in EventPoints : OceanMouseOver(point)
    \/ OceanMouseOut
    \/ \E point \in EventPoints : OceanClick(point)
    \/ \E point \in EventPoints : MapClick(point)
    \/ PointerToPanel
    \/ PointerToMap
    \/ UnpinInfoPanel
    \/ \E k \in 1..MaxPolities : LeaderboardItemClick(k)
    \/ JumpIndicatorReturn
    \/ JumpIndicatorClose
    \/ UpdateMap(currentYear)

SpecUi == InitUi /\ [][NextUi]_vars

-----------------------------------------------------------------------------
(* The application: construction, loadAllData, then calls on the engine    *)
(* (src/js/state.js, src/js/app.js, src/js/map.js)                          *)

totalToLoad == 3

NotStarted == [polities |-> "idle", cities |-> "idle", stats |-> "idle"]

\* state.js, before init() has reached loadAllData.
Init ==
    /\ allPolities = << >>
    /\ allCities = << >>
    /\ worldStats = << >>
    /\ polityFoundingYears = EmptyObject
    /\ currentYear = 1
    /\ fetches = NotStarted
    /\ loadedCount = 0
    /\ completeCalls = 0
    /\ call = NoCall
    /\ InitPanels

\* loadAllData starts its three fetch chains.
LoadAllData ==
    /\ fetches = NotStarted
    /\ fetches' = [polities |-> "pending", cities |-> "pending", stats |-> "pending"]
    /\ UNCHANGED panelVars
    /\ UNCHANGED <<allPolities, allCities, worldStats, polityFoundingYears,
                   currentYear, loadedCount, completeCalls, call>>

\* checkLoaded, run once the handler has done its assignments; the third call
\* runs onComplete, which shows year 1 through updateMapWithGraph(1) on the
\* state as it then is.
checkLoaded ==
    /\ loadedCount' = loadedCount + 1
    /\ IF loadedCount + 1 = totalToLoad
       THEN /\ completeCalls' = completeCalls + 1
            /\ currentYear' = 1
            /\ call' = [op |-> "updateMap", args |-> <<1>>,
                        ret |-> visiblePolitiesOf(allPolities', 1)]
            /\ graphData' = IF graphVisible
                            THEN storeGraphData(graphData, 1,
                                     calculateMetricsFast(1, visiblePolities(1))')
                            ELSE graphData
       ELSE UNCHANGED <<completeCalls, currentYear, call, graphData>>

\* parts.flatMap(part => part.features)
flatMapFeatures(parts) == parts[1] \o parts[2] \o parts[3]

\* The three polity files arrived: the collection and the founding-year
\* index are installed, then checkLoaded runs.
PolitiesFulfilled(parts) ==
    /\ fetches.polities = "pending"
    /\ fetches' = [fetches EXCEPT !.polities = "fulfilled"]
    /\ allPolities' = flatMapFeatures(parts)
    /\ polityFoundingYears' = buildFoundingYears(allPolities')
    /\ UNCHANGED <<allCities, worldStats>>
    /\ UNCHANGED <<uiVars, timelineVars, heatmapVars, graphDataLoaded, graphVisible, preloadPasses>>
    /\ checkLoaded

\* The catch handler that reports the error and leaves checkLoaded out.
PolitiesRejectedUncounted ==
    /\ fetches.polities = "pending"
    /\ fetches' = [fetches EXCEPT !.polities = "rejected"]
    /\ UNCHANGED <<allPolities, allCities, worldStats, polityFoundingYears>>
    /\ UNCHANGED <<panelVars, loadedCount, completeCalls, currentYear, call>>

\* The catch handler of the polity chain, for a fetch or a parse that failed:
\* it reports the error and runs checkLoaded.
PolitiesRejected ==
    /\ fetches.polities = "pending"
    /\ fetches' = [fetches EXCEPT !.polities = "rejected"]
    /\ UNCHANGED <<allPolities, allCities, worldStats, polityFoundingYears>>
    /\ UNCHANGED <<uiVars, timelineVars, heatmapVars, graphDataLoaded, graphVisible, preloadPasses>>
    /\ checkLoaded

\* Math.max(...Object.values(pops)) >= 100000
reaches100k(city) == \E y \in DOMAIN city.populations : city.populations[y] >= 100000

CitiesFulfilled(features) ==
    /\ fetches.cities = "pending"
    /\ fetches' = [fetches EXCEPT !.cities = "fulfilled"]
    /\ allCities' = SelectSeq(features, reaches100k)
    /\ UNCHANGED <<allPolities, worldStats, polityFoundingYears>>
    /\ UNCHANGED <<uiVars, timelineVars, heatmapVars, graphDataLoaded, graphVisible, preloadPasses>>
    /\ checkLoaded

CitiesRejected ==
    /\ fetches.cities = "pending"
    /\ fetches' = [fetches EXCEPT !.cities = "rejected"]
    /\ UNCHANGED <<allPolities, allCities, worldStats, polityFoundingYears>>
    /\ UNCHANGED <<uiVars, timelineVars, heatmapVars, graphDataLoaded, graphVisible, preloadPasses>>
    /\ checkLoaded

StatsFulfilled(data) ==
    /\ fetches.stats = "pending"
    /\ fetches' = [fetches EXCEPT !.stats = "fulfilled"]
    /\ worldStats' = data
    /\ UNCHANGED <<allPolities, allCities, polityFoundingYears>>
    /\ UNCHANGED <<uiVars, timelineVars, heatmapVars, graphDataLoaded, graphVisible, preloadPasses>>
    /\ checkLoaded

StatsRejected ==
    /\ fetches.stats = "pending"
    /\ fetches' = [fetches EXCEPT !.stats = "rejected"]
    /\ UNCHANGED <<allPolities, allCities, worldStats, polityFoundingYears>>
    /\ UNCHANGED <<uiVars, timelineVars, heatmapVars, graphDataLoaded, graphVisible, preloadPasses>>
    /\ checkLoaded

\* What the data files of the application specification may hold.
LoadRecords ==
    { Polity(n, iv[1], iv[2], 1, SquareA) :
        n \in {NameA, NameB, WrapperA}, iv \in { <<0, 1>>, <<1, 2>> } }

\* A dataset of at most MaxPolities records, cut into the three part files.
LoadParts ==
    UNION { UNION { { <<SubSeq(d, 1, a), SubSeq(d, a + 1, b), SubSeq(d, b + 1, Len(d))>> :
                        b \in a..Len(d) } : a \in 0..Len(d) } :
            d \in SeqsUpTo(LoadRecords, MaxPolities) }

\* One city that reaches 100k and one that never does.
LoadCities ==
    { City("C", 1, 1, (1 :> 100000), 0), City("E", 1, 1, (1 :> 50000), 0) }

LoadYears == 0..2

LoadPoints == { <<1, 1>>, <<7, 7>> }

Next ==
    \/ LoadAllData
    \/ \E parts \in LoadParts : PolitiesFulfilled(parts)
    \/ PolitiesRejected
    \/ \E features \in SeqsUpTo(LoadCities, MaxCities) : CitiesFulfilled(features)
    \/ CitiesRejected
    \/ StatsFulfilled(SampleStats)
    \/ StatsRejected
    \/ \E year \in LoadYears : UpdateMapWithGraph(year)
    \/ \E p \in LoadPoints : GetPolityAtPoint(p[1], p[2])
    \/ \E p \in LoadPoints : GetLocationHistory(p[1], p[2])
    \/ \E i \in 1..MaxCities : GetPopulationForYear(i, currentYear)
    \/ \E site \in {"updateGraph", "processChunk"} : CalculateMetricsFast(currentYear, site)

Spec == Init /\ [][Next]_vars


-----------------------------------------------------------------------------
(* Claims about the founding-year index (Spec) *)

PolityLoadCompleted == fetches.polities \in {"fulfilled", "rejected"}

FragmentsNamed(n) == { i \in 1..Len(allPolities) : allPolities[i].Name = n }

\* The index holds, for every name that is not a parenthesised wrapper, the
\* least FromYear of the name's fragments, and nothing else.
FoundingYearsExact ==
    /\ DOMAIN polityFoundingYears =
           { allPolities[i].Name : i \in { k \in 1..Len(allPolities) :
                                             ~IsParenthesised(allPolities[k].Name) } }
    /\ \A n \in DOMAIN polityFoundingYears :
          /\ \A i \in FragmentsNamed(n) : polityFoundingYears[n] <= allPolities[i].FromYear
          /\ \E i \in FragmentsNamed(n) : polityFoundingYears[n] = allPolities[i].FromYear

\* C9: once the polity load has completed, polityFoundingYears[name] is the
\* minimum FromYear over the fragments of every non-wrapper name, wrapper
\* names have no entry, and no later query or year change alters the index.
C9_FoundingYearsMinimalAndStable ==
    /\ [](PolityLoadCompleted => FoundingYearsExact)
    /\ [][PolityLoadCompleted => polityFoundingYears' = polityFoundingYears]_vars

\* Loaded: a name whose later fragment in the collection starts earlier, next
\* to nothing but that name; the index holds the earlier year and a query has
\* run since.
C9_Witness ==
    /\ fetches.polities = "fulfilled"
    /\ Len(allPolities) = 2
    /\ allPolities[1].Name = allPolities[2].Name
    /\ ~IsParenthesised(allPolities[1].Name)
    /\ allPolities[2].FromYear < allPolities[1].FromYear
    /\ polityFoundingYears[allPolities[1].Name] = allPolities[2].FromYear
    /\ call.op = "getLocationHistory"

-----------------------------------------------------------------------------
(* Claims about the load barrier (Spec) *)

HasSettled(chain) == fetches[chain] \in {"fulfilled", "rejected"}

AllThreeSettled == \A chain \in {"polities", "cities", "stats"} : HasSettled(chain)

C18_NoQueryBeforeLoadCompletes ==
    call.op \in {"updateMap", "getPolityAtPoint", "getLocationHistory"} =>
        completeCalls >= 1

-----------------------------------------------------------------------------
(* Claims about the queries' effect on the dataset (Spec) *)

QueryOps ==
    {"getPolityAtPoint", "getLocationHistory", "calculateMetricsFast",
     "getPopulationForYear", "updateMap"}

\* C22: queries never mutate the loaded dataset: a step that settles no load
\* and makes one of the calls getPolityAtPoint, getLocationHistory,
\* calculateMetricsFast, getPopulationForYear or updateMap leaves
\* state.allPolities and state.allCities with the same records, in the same
\* order, with the same FromYear, ToYear, Area and populations.
C22_QueriesLeaveDataset ==
    [][(fetches' = fetches /\ call'.op \in QueryOps)
          => (allPolities' = allPolities /\ allCities' = allCities)]_vars

\* A loaded dataset that is not in FromYear order, with a city, after a
\* history query that found the point's two fragments.
C22_Witness ==
    /\ AllThreeSettled
    /\ Len(allPolities) = 2
    /\ allPolities[2].FromYear < allPolities[1].FromYear
    /\ allCities # << >>
    /\ call.op = "getLocationHistory"
    /\ call.ret # << >>

-----------------------------------------------------------------------------
(* Claims about the precompute pass (SpecGraph) *)

\* The stride years a pass has cached so far.
CachedStrideYears ==
    { preloadYears[i] :
        i \in UNION { 1..preloadPasses[k].index : k \in 1..Len(preloadPasses) } }

\* C23: for every stride year Y the precompute pass has cached,
\* state.graphData[Y] equals calculateMetricsFast(Y, visibleAt(Y)), visibleAt
\* being the visible set of updateMap (in range, no parenthesised wrapper):
\* the precomputed and the live snapshot of a year agree.
C23_PreloadAgreesWithLive ==
    \A Y \in CachedStrideYears :
        graphData[Y] = calculateMetricsFast(Y, visiblePolities(Y))

\* What a call of preloadGraphData has done so far.
PassDone(pass) == pass.index = Len(preloadYears)

PassConsistent(pass) ==
    IF pass.started
    THEN /\ pass.callbacks = IF PassDone(pass) THEN 1 ELSE 0
         /\ \A i \in 1..pass.index : preloadYears[i] \in DOMAIN graphData
         /\ PassDone(pass) => graphDataLoaded
    ELSE /\ pass.callbacks = 1
         /\ pass.index = 0
         /\ graphDataLoaded

\* C24: preloadGraphData takes the stride years (-3700, -3650, ..., 2000 in
\* the code) in ascending order, in slices of at most chunkSize years, one
\* slice per animation frame; while frames keep running, a started pass
\* leads to graphDataLoaded = true, and when a pass sets graphDataLoaded the
\* cache holds a snapshot for every stride year and the pass's callback has
\* been invoked exactly once; a call made with graphDataLoaded already true
\* computes nothing and invokes its callback at once.
C24_PreloadPassCompletes ==
    /\ [](/\ Len(strideYears(-3700, 2024, 50)) = 115
          /\ strideYears(-3700, 2024, 50)[1] = -3700
          /\ strideYears(-3700, 2024, 50)[115] = 2000
          /\ \A i \in 1..(Len(preloadYears) - 1) : preloadYears[i] < preloadYears[i + 1]
          /\ \A k \in 1..Len(preloadPasses) : PassConsistent(preloadPasses[k]))
    /\ [][/\ \A k \in 1..Len(preloadPasses) :
                preloadPasses'[k].index - preloadPasses[k].index \in 0..chunkSize
          /\ (Len(preloadPasses') > Len(preloadPasses) /\ graphDataLoaded)
                => graphData' = graphData]_vars
    /\ (\E k \in 1..Len(preloadPasses) : preloadPasses[k].started) ~> graphDataLoaded

\* A pass has run to its end, and the panel was then opened again.
C24_Witness ==
    /\ Len(preloadPasses) = 2
    /\ preloadPasses[1].started /\ PassDone(preloadPasses[1])
    /\ preloadPasses[1].callbacks = 1
    /\ ~preloadPasses[2].started
    /\ preloadPasses[2].callbacks = 1
    /\ DOMAIN graphData = { preloadYears[i] : i \in 1..Len(preloadYears) }

\* C25: at most one precompute pass is in flight at any time, and no stride
\* year is computed by two passes.
C25_OnePassInFlight ==
    LET running == { k \in 1..Len(preloadPasses) :
                       preloadPasses[k].started /\ ~PassDone(preloadPasses[k]) }
    IN  /\ Cardinality(running) <= 1
        /\ \A i \in 1..Len(preloadYears) :
              Cardinality({ k \in 1..Len(preloadPasses) :
                              preloadPasses[k].started /\ preloadPasses[k].index >= i }) <= 1

-----------------------------------------------------------------------------
(* Claims that relate the point query and the history query (SpecVis) *)

\* C30: the point query and the history query agree: when
\* getPolityAtPoint(lon, lat, Y) returns polity P, getLocationHistory(lon,
\* lat) holds an interval with name = P.Name and fromYear <= Y <= toYear.
C30_PointQueryWithinHistory ==
    (call.op = "getPolityAtPoint" /\ call.ret # Null) =>
        LET P       == call.ret[1]
            Y       == call.args[3]
            history == getLocationHistory(call.args[1], call.args[2])
        IN  \E i \in 1..Len(history) :
                /\ history[i].name = P.Name
                /\ history[i].fromYear <= Y
                /\ Y <= history[i].toYear

-----------------------------------------------------------------------------
(* Claims about selection, hover and navigation (SpecUi) *)

\* C26: in every reachable state, state.infoPanelPinned = true implies that
\* state.selectedLocation is not null (a click pins the panel on the
\* selection that click has set).
C26_PinnedPanelHasSelection ==
    infoPanelPinned => selectedLocation # Null

\* C27: state.hoverPriority is non-null only while the pointer is over a
\* city, river or ocean hit target: with the pointer outside every such
\* target, after any sequence of mouseover, click, mouseout, unpinInfoPanel
\* and updateMap, hoverPriority is null.
C27_HoverPriorityOnlyOverItsTarget ==
    pointer \notin PriorityTargets => hoverPriority = Null

\* The history is empty, or has at least two entries of which the first is
\* the starting point.
HistoryFromStartingPoint ==
    \/ locationHistory = << >>
    \/ /\ Len(locationHistory) >= 2
       /\ locationHistory[1].territoryName = "Starting point"

\* The entry that begins a history holds the centre the map had before the
\* navigation.
StartSavedBeforeNavigation ==
    (locationHistory = << >> /\ locationHistory' # << >>)
        => locationHistory'[1].coords = mapCenter

\* C28: after any sequence of leaderboard-item clicks, Back clicks,
\* indicator-close clicks and unpinInfoPanel calls, state.locationHistory is
\* empty or has at least two entries, the first being the 'Starting point'
\* saved before the first navigation; it never has exactly one entry.
C28_HistoryNeverHoldsStartAlone ==
    []HistoryFromStartingPoint /\ [][StartSavedBeforeNavigation]_vars

\* A navigation to the first territory from the view the map starts with:
\* the history holds the starting point, then the territory, and the map is
\* at the mean of the territory's ring.
C28_Witness ==
    /\ Len(locationHistory) = 2
    /\ locationHistory[1].territoryName = "Starting point"
    /\ locationHistory[1].coords = <<Quotient(30, 1), Quotient(40, 1)>>
    /\ locationHistory[2].territoryName = NameA
    /\ locationHistory[2].coords = <<vertexMean(Triangle)[2], vertexMean(Triangle)[1]>>
    /\ mapCenter = locationHistory[2].coords
    /\ infoPanelPinned


=============================================================================
